---- MODULE Spec2Model ----
(***************************************************************************)
(* Model of the paranoid_crypto library: the TestInfo bookkeeping          *)
(* (lib/util.py), the check registry and orchestrator (lib/paranoid.py),   *)
(* the RSA and ECDSA checks and the randomness test driver                 *)
(* (lib/randomness_tests/random_test_suite.py).                            *)
(***************************************************************************)
EXTENDS Integers, Sequences, FiniteSets, TLC

VARIABLES
  ti,            \* a stand-alone paranoid_pb2.TestInfo driven through the util API
  tiLast,        \* the last util call made on ti (history)
  check_factory, \* paranoid._check_factory: key -> dict (list of [name, inst])
  constructed,   \* class name -> number of times its constructor has run
  thr,           \* thread -> [calls, stack of frames, got (last value returned),
                 \*            raised (a call of the thread ended in an exception)]
  artifact_list, \* the list of keys or signatures a caller passes to CheckAll*
  oracle,        \* what the detectors that are not computed here find
  run,           \* the caller's CheckAll* call: entry point, position, result
  tests,         \* the list of TestStructure of TestSource / TestBitString
  suite,         \* the caller's TestSource / TestBitString call
  call           \* a call of one library function: arguments, then result

tiVars == <<ti, tiLast>>
regVars == <<check_factory, constructed, thr>>
orchVars == <<artifact_list, oracle, run>>

randVars == <<tests, suite>>

vars == <<ti, tiLast, check_factory, constructed, thr, artifact_list, oracle, run,
          tests, suite, call>>

\* What each specification leaves alone.
notTI == <<regVars, orchVars, randVars, call>>
notReg == <<tiVars, orchVars, randVars, call>>
notOrch == <<tiVars, thr, randVars, call>>
notRand == <<tiVars, regVars, orchVars, call>>
notCall == <<tiVars, regVars, orchVars, randVars>>

(***************************************************************************)
(* Generic helpers                                                         *)
(***************************************************************************)
Max(a, b) == IF a >= b THEN a ELSE b

RECURSIVE SeqToSet(_)
SeqToSet(s) == IF s = <<>> THEN {} ELSE {Head(s)} \cup SeqToSet(Tail(s))

(***************************************************************************)
(* paranoid_pb2.SeverityType                                               *)
(***************************************************************************)
SEVERITY_UNKNOWN == 0
SEVERITY_MEDIUM == 2
SEVERITY_HIGH == 3
SEVERITY_CRITICAL == 4

Severities == {SEVERITY_UNKNOWN, SEVERITY_MEDIUM, SEVERITY_HIGH, SEVERITY_CRITICAL}

(***************************************************************************)
(* consts.py                                                               *)
(***************************************************************************)
INFO_NAME_N_FACTORS == "N_FACTORS"
INFO_NAME_NM1_FACTORS == "N-1_FACTORS"
INFO_NAME_DISCRETE_LOG == "DISCRETE_LOG"
INFO_NAME_DISCRETE_LOG_DIFF == "DISCRETE_LOG_DIFF"

(***************************************************************************)
(* lib/util.py: TestInfo and its accessors.                                *)
(* A TestInfo is a record                                                  *)
(*   weak, paranoid_lib_version, test_results (a list of entries           *)
(*   [test_name, result, severity]), attached_info (a list of entries      *)
(*   [info_name, value]).                                                  *)
(* The value of a factor entry is the printed set of hexadecimal strings;  *)
(* a hexadecimal string is the list of its digits.                         *)
(***************************************************************************)
VERSION == "version"

EmptyTestInfo ==
  [weak |-> FALSE, paranoid_lib_version |-> "", test_results |-> <<>>,
   attached_info |-> <<>>]

\* format(int(f), 'x')
RECURSIVE FormatHex(_)
FormatHex(n) ==
  IF n < 16 THEN <<n>> ELSE FormatHex(n \div 16) \o <<n % 16>>

\* int(f_hex, 16)
RECURSIVE IntHex(_)
IntHex(s) ==
  IF s = <<>> THEN 0 ELSE 16 * IntHex(SubSeq(s, 1, Len(s) - 1)) + s[Len(s)]

\* Index of the first entry of a list with the given name, 0 if none.
RECURSIVE FirstIndex(_, _, _)
FirstIndex(entries, field, name) ==
  IF entries = <<>> THEN 0
  ELSE IF Head(entries)[field] = name THEN 1
  ELSE LET r == FirstIndex(Tail(entries), field, name)
       IN IF r = 0 THEN 0 ELSE r + 1

GetTestResultIdx(test_info, test_name) ==
  FirstIndex(test_info.test_results, "test_name", test_name)

GetAttachedInfoIdx(test_info, info_name) ==
  FirstIndex(test_info.attached_info, "info_name", info_name)

GetHighestSeverityFrom(results, highest) ==
  LET RECURSIVE Scan(_, _)
      Scan(rs, h) ==
        IF rs = <<>> THEN h
        ELSE IF Head(rs).result /\ Head(rs).severity > h
             THEN Scan(Tail(rs), Head(rs).severity)
             ELSE Scan(Tail(rs), h)
  IN Scan(results, highest)

\* GetHighestSeverity that starts from the lowest severity, so that a failed
\* test of severity SEVERITY_UNKNOWN is not seen.
GetHighestSeverityAboveUnknown(test_info) ==
  IF GetHighestSeverityFrom(test_info.test_results, SEVERITY_UNKNOWN) = SEVERITY_UNKNOWN
  THEN -1
  ELSE GetHighestSeverityFrom(test_info.test_results, SEVERITY_UNKNOWN)

\* None is modelled as -1.
GetHighestSeverity(test_info) == GetHighestSeverityFrom(test_info.test_results, -1)

\* SetTestResult that overwrites the stored entry instead of merging into it.
SetTestResultOverwrite(test_info, test_result) ==
  LET t1 == IF test_info.paranoid_lib_version = ""
            THEN [test_info EXCEPT !.paranoid_lib_version = VERSION]
            ELSE test_info
      t2 == IF test_result.result THEN [t1 EXCEPT !.weak = TRUE] ELSE t1
      i == GetTestResultIdx(t2, test_result.test_name)
  IN IF i # 0
     THEN [t2 EXCEPT !.test_results[i] = test_result]
     ELSE [t2 EXCEPT !.test_results = Append(@, test_result)]

SetTestResult(test_info, test_result) ==
  LET t1 == IF test_info.paranoid_lib_version = ""
            THEN [test_info EXCEPT !.paranoid_lib_version = VERSION]
            ELSE test_info
      t2 == IF test_result.result THEN [t1 EXCEPT !.weak = TRUE] ELSE t1
      i == GetTestResultIdx(t2, test_result.test_name)
  IN IF i # 0
     THEN [t2 EXCEPT !.test_results[i] =
             [test_name |-> @.test_name,
              result |-> @.result \/ test_result.result,
              severity |-> Max(@.severity, test_result.severity)]]
     ELSE [t2 EXCEPT !.test_results = Append(@, test_result)]

\* AttachInfo that adds an entry without looking for a stored one.
AttachInfoAppend(test_info, info_name, value) ==
  [test_info EXCEPT !.attached_info =
     Append(@, [info_name |-> info_name, value |-> value])]

AttachInfo(test_info, info_name, value) ==
  LET i == GetAttachedInfoIdx(test_info, info_name)
  IN IF i # 0
     THEN [test_info EXCEPT !.attached_info[i].value = value]
     ELSE [test_info EXCEPT !.attached_info =
             Append(@, [info_name |-> info_name, value |-> value])]

\* None is modelled as the empty set: both are falsy for the only caller.
GetAttachedFactors(test_info, info_name) ==
  LET i == GetAttachedInfoIdx(test_info, info_name)
  IN IF i # 0
     THEN {IntHex(h) : h \in test_info.attached_info[i].value}
     ELSE {}

AttachFactors(test_info, info_name, factors) ==
  LET old_set == GetAttachedFactors(test_info, info_name)
      all == IF old_set # {} THEN factors \cup old_set ELSE factors
      new_set == {FormatHex(f) : f \in all}
  IN AttachInfo(test_info, info_name, new_set)

(***************************************************************************)
(* Specification SpecTI: a caller drives one TestInfo through the util API *)
(***************************************************************************)
TINames == {"CheckA", "CheckB"}
TIInfoNames == {INFO_NAME_N_FACTORS, INFO_NAME_NM1_FACTORS}
MaxFactor == 17
TIFactorSets == {{3}, {5, MaxFactor}, {3, 5}}

InitTI ==
  /\ ti = EmptyTestInfo
  /\ tiLast = [op |-> "none"]

TISetTestResult ==
  \E name \in TINames, res \in BOOLEAN, sev \in Severities :
    /\ ti' = SetTestResult(ti, [test_name |-> name, result |-> res, severity |-> sev])
    /\ tiLast' = [op |-> "SetTestResult", name |-> name, result |-> res,
                  severity |-> sev]
    /\ UNCHANGED notTI

TIAttachFactors ==
  \E info \in TIInfoNames, fs \in TIFactorSets :
    /\ ti' = AttachFactors(ti, info, fs)
    /\ tiLast' = [op |-> "AttachFactors", name |-> info, factors |-> fs]
    /\ UNCHANGED notTI

NextTI == TISetTestResult \/ TIAttachFactors


(***************************************************************************)
(* lib/paranoid.py: the active checks and the check factory                *)
(***************************************************************************)
ACTIVE_EC_SINGLE_CHECKS ==
  <<"CheckValidECKey", "CheckWeakCurve", "CheckWeakECPrivateKey">>

ACTIVE_EC_AGGREGATE_CHECKS == <<"CheckECKeySmallDifference">>

ACTIVE_RSA_SINGLE_CHECKS ==
  <<"CheckSizes", "CheckExponents", "CheckROCA", "CheckROCAVariant",
    "CheckFermat", "CheckHighAndLowBitsEqual", "CheckOpensslDenylist",
    "CheckContinuedFractions", "CheckBitPatterns", "CheckPermutedBitPatterns",
    "CheckPollardpm1", "CheckLowHammingWeight", "CheckUnseededRand",
    "CheckSmallUpperDifferences", "CheckKeypairDenylist">>

ACTIVE_RSA_AGGREGATE_CHECKS == <<"CheckGCD", "CheckGCDN1">>

ACTIVE_ECDSA_SIG_CHECKS ==
  <<"CheckLCGNonceGMP", "CheckLCGNonceJavaUtilRandom", "CheckNonceMSB",
    "CheckNonceCommonPrefix", "CheckNonceCommonPostfix",
    "CheckNonceGeneralized", "CheckIssuerKey", "CheckCr50U2f">>

RSA_SINGLES == "rsa_singles"
RSA_AGGREGATES == "rsa_aggregates"
RSA_ALL == "rsa_all"
EC_SINGLES == "ec_singles"
EC_AGGREGATES == "ec_aggregates"
EC_ALL == "ec_all"
ECDSA_ALL == "ecdsa_all"

FactoryKeys ==
  {RSA_SINGLES, RSA_AGGREGATES, RSA_ALL, EC_SINGLES, EC_AGGREGATES, EC_ALL,
   ECDSA_ALL}

\* The Get*Checks functions that fill their dict from a tuple of classes, and
\* the ones that merge two other dicts.
LeafClasses(key) ==
  CASE key = RSA_SINGLES -> ACTIVE_RSA_SINGLE_CHECKS
    [] key = RSA_AGGREGATES -> ACTIVE_RSA_AGGREGATE_CHECKS
    [] key = EC_SINGLES -> ACTIVE_EC_SINGLE_CHECKS
    [] key = EC_AGGREGATES -> ACTIVE_EC_AGGREGATE_CHECKS
    [] key = ECDSA_ALL -> ACTIVE_ECDSA_SIG_CHECKS

IsMerged(key) == key \in {RSA_ALL, EC_ALL}

MergedParts(key) ==
  IF key = RSA_ALL THEN <<RSA_SINGLES, RSA_AGGREGATES>>
  ELSE <<EC_SINGLES, EC_AGGREGATES>>

AllClasses ==
  SeqToSet(ACTIVE_EC_SINGLE_CHECKS) \cup SeqToSet(ACTIVE_EC_AGGREGATE_CHECKS)
  \cup SeqToSet(ACTIVE_RSA_SINGLE_CHECKS) \cup SeqToSet(ACTIVE_RSA_AGGREGATE_CHECKS)
  \cup SeqToSet(ACTIVE_ECDSA_SIG_CHECKS)

\* dict[name] = inst: an existing key keeps its position.
DictSet(d, name, inst) ==
  LET i == FirstIndex(d, "name", name)
  IN IF i # 0 THEN [d EXCEPT ![i].inst = inst]
     ELSE Append(d, [name |-> name, inst |-> inst])

\* d.update(other)
RECURSIVE DictUpdate(_, _)
DictUpdate(d, other) ==
  IF other = <<>> THEN d
  ELSE DictUpdate(DictSet(d, Head(other).name, Head(other).inst), Tail(other))

DictNames(d) == [i \in 1..Len(d) |-> d[i].name]

(***************************************************************************)
(* Specification SpecReg: threads calling the Get*Checks functions.        *)
(* A frame is [fn, pc, i]: pc = "test" before the emptiness test,          *)
(* "loop" before constructing class i, "part" before calling merged part i,*)
(* "ret" before returning.                                                 *)
(***************************************************************************)
Threads == {"t1", "t2"}
MaxCalls == 2

Frame(fn, pc, i) == [fn |-> fn, pc |-> pc, i |-> i]

NoValue == [fn |-> "none", dict |-> <<>>]

InitReg ==
  /\ check_factory = [k \in FactoryKeys |-> <<>>]
  /\ constructed = [c \in AllClasses |-> 0]
  /\ thr = [t \in Threads |->
              [calls |-> 0, stack |-> <<>>, got |-> NoValue, raised |-> FALSE]]

Top(t) == thr[t].stack[Len(thr[t].stack)]

SetTop(t, f) == [thr EXCEPT ![t].stack[Len(thr[t].stack)] = f]

\* A caller invokes one of the Get*Checks functions.
RegCall(t) ==
  /\ thr[t].stack = <<>>
  /\ thr[t].calls < MaxCalls
  /\ \E fn \in FactoryKeys :
       thr' = [thr EXCEPT ![t].stack = <<Frame(fn, "test", 1)>>,
                          ![t].calls = @ + 1,
                          ![t].got = NoValue]
  /\ UNCHANGED <<check_factory, constructed, notReg>>

\* if not _check_factory[key]:
RegTest(t) ==
  /\ thr[t].stack # <<>>
  /\ Top(t).pc = "test"
  /\ thr' = SetTop(t,
       IF check_factory[Top(t).fn] # <<>> THEN Frame(Top(t).fn, "ret", 1)
       ELSE IF IsMerged(Top(t).fn) THEN Frame(Top(t).fn, "part", 1)
       ELSE Frame(Top(t).fn, "loop", 1))
  /\ UNCHANGED <<check_factory, constructed, notReg>>

\* check = test_class(); _check_factory[key][check.check_name] = check
RegConstruct(t) ==
  /\ thr[t].stack # <<>>
  /\ Top(t).pc = "loop"
  /\ LET fn == Top(t).fn
         cls == LeafClasses(fn)[Top(t).i]
     IN /\ constructed' = [constructed EXCEPT ![cls] = @ + 1]
        /\ check_factory' =
             [check_factory EXCEPT ![fn] = DictSet(@, cls, constructed[cls] + 1)]
        /\ thr' = SetTop(t,
             IF Top(t).i < Len(LeafClasses(fn)) THEN Frame(fn, "loop", Top(t).i + 1)
             ELSE Frame(fn, "ret", 1))
        /\ UNCHANGED notReg

\* The classes whose constructor loads a resource of default_storage and
\* raises when the resource cannot be read.
LoadingClasses == {"CheckOpensslDenylist", "CheckKeypairDenylist"}

\* check = test_class() raises: the exception leaves every frame of the
\* thread, and the dict keeps the checks inserted so far.
RegConstructRaises(t) ==
  /\ thr[t].stack # <<>>
  /\ Top(t).pc = "loop"
  /\ LeafClasses(Top(t).fn)[Top(t).i] \in LoadingClasses
  /\ thr' = [thr EXCEPT ![t].stack = <<>>, ![t].raised = TRUE]
  /\ UNCHANGED <<check_factory, constructed, notReg>>

\* _check_factory[key].update(GetXChecks()): the call of the part
RegCallPart(t) ==
  /\ thr[t].stack # <<>>
  /\ Top(t).pc = "part"
  /\ thr' = [thr EXCEPT ![t].stack =
               Append(@, Frame(MergedParts(Top(t).fn)[Top(t).i], "test", 1))]
  /\ UNCHANGED <<check_factory, constructed, notReg>>

\* return _check_factory[key]: to the caller, or into the update of the
\* merged dict that called it.
RegReturn(t) ==
  /\ thr[t].stack # <<>>
  /\ Top(t).pc = "ret"
  /\ LET n == Len(thr[t].stack)
         fn == Top(t).fn
     IN IF n = 1
        THEN /\ thr' = [thr EXCEPT ![t].stack = <<>>,
                                   ![t].got = [fn |-> fn, dict |-> check_factory[fn]]]
             /\ UNCHANGED <<check_factory, constructed, notReg>>
        ELSE LET outer == thr[t].stack[n - 1]
             IN /\ check_factory' =
                     [check_factory EXCEPT ![outer.fn] =
                        DictUpdate(@, check_factory[fn])]
                /\ thr' = [thr EXCEPT ![t].stack =
                     Append(SubSeq(@, 1, n - 2),
                            IF outer.i < Len(MergedParts(outer.fn))
                            THEN Frame(outer.fn, "part", outer.i + 1)
                            ELSE Frame(outer.fn, "ret", 1))]
                /\ UNCHANGED <<constructed, notReg>>

NextReg ==
  \E t \in Threads :
    \/ RegCall(t)
    \/ RegTest(t)
    \/ RegConstruct(t)
    \/ RegConstructRaises(t)
    \/ RegCallPart(t)
    \/ RegReturn(t)

(***************************************************************************)
(* Number theory used by the RSA checks (lib/rsa_util.py,                  *)
(* lib/ntheory_util.py, gmpy)                                              *)
(***************************************************************************)
RECURSIVE Gcd(_, _)
Gcd(a, b) == IF b = 0 THEN a ELSE Gcd(b, a % b)

\* int.bit_length()
RECURSIVE BitLength(_)
BitLength(n) == IF n = 0 THEN 0 ELSE 1 + BitLength(n \div 2)

\* gmpy.sqrt: the integer square root
RECURSIVE SqrtFrom(_, _)
SqrtFrom(n, a) == IF (a + 1) * (a + 1) > n THEN a ELSE SqrtFrom(n, a + 1)

Sqrt(n) == SqrtFrom(n, 0)

IsSquare(n) == Sqrt(n) * Sqrt(n) = n

\* values[::2] and values[1::2]
Evens(s) == [i \in 1..((Len(s) + 1) \div 2) |-> s[2 * i - 1]]

Odds(s) == [i \in 1..(Len(s) \div 2) |-> s[2 * i]]

\* The loop of ExtendedProductTree: returns the product tree and the list t.
RECURSIVE ExtendedProductTreeLoop(_, _, _)
ExtendedProductTreeLoop(values, t, prod_tree) ==
  IF Len(values) <= 1 THEN [prod_tree |-> prod_tree, t |-> t]
  ELSE LET last_t == t[Len(t)]
           t2 == [i \in 1..Len(Odds(values)) |->
                    Evens(t)[i] * Odds(values)[i] + Odds(t)[i] * Evens(values)[i]]
           t3 == IF Len(values) % 2 = 1 THEN Append(t2, last_t) ELSE t2
           v2 == [i \in 1..Len(Evens(values)) |->
                    Evens(values)[i] *
                      (IF i <= Len(Odds(values)) THEN Odds(values)[i] ELSE 1)]
       IN ExtendedProductTreeLoop(v2, t3, Append(prod_tree, v2))

\* t[0] of an empty list raises IndexError.
ExtendedProductTree(values) ==
  LET r == ExtendedProductTreeLoop(values, [i \in 1..Len(values) |-> 1], <<values>>)
  IN IF r.t = <<>> THEN [err |-> "IndexError", prod_tree |-> r.prod_tree, t |-> 0]
     ELSE [err |-> "none", prod_tree |-> r.prod_tree, t |-> r.t[1]]

\* RemainderLevel that reads the first remainder of the level above for
\* every value.
RemainderLevelFirst(level, prev) ==
  [k \in 1..Len(level) |->
     LET i == k - 1
     IN IF i + 1 = Len(level) /\ i % 2 = 0 THEN prev[1]
        ELSE prev[1] % level[k]]

\* One level of the remainder tree; i is the 0-based index of the source.
RemainderLevel(level, prev) ==
  [k \in 1..Len(level) |->
     LET i == k - 1
     IN IF i + 1 = Len(level) /\ i % 2 = 0 THEN prev[(i \div 2) + 1]
        ELSE prev[(i \div 2) + 1] % level[k]]

\* A level on which the code takes a remainder modulo zero.
LevelDividesByZero(level) ==
  \E k \in 1..Len(level) :
    /\ ~((k - 1) + 1 = Len(level) /\ (k - 1) % 2 = 0)
    /\ level[k] = 0

RECURSIVE RemainderTree(_, _)
RemainderTree(prod_tree, remainders) ==
  IF prod_tree = <<>> THEN remainders
  ELSE RemainderTree(SubSeq(prod_tree, 1, Len(prod_tree) - 1),
                     RemainderLevel(prod_tree[Len(prod_tree)], remainders))

\* All orders in which list(set(values)) can enumerate the distinct values.
SetOrders(S) ==
  {f \in [1..Cardinality(S) -> S] : \A i, j \in 1..Cardinality(S) : i # j => f[i] # f[j]}

\* BatchGCD that builds the trees over values as given, without set().
BatchGCDNoSet(values, other_values_prod, unique_values) ==
  LET ept == ExtendedProductTree(values)
  IN IF ept.err # "none" THEN [err |-> ept.err, gcds |-> <<>>]
     ELSE IF \E l \in 1..Len(ept.prod_tree) : LevelDividesByZero(ept.prod_tree[l])
     THEN [err |-> "ZeroDivisionError", gcds |-> <<>>]
     ELSE LET remainders == RemainderTree(ept.prod_tree,
                                          <<IF other_values_prod # 0
                                            THEN ept.t * other_values_prod ELSE ept.t>>)
          IN [err |-> "none",
              gcds |-> [i \in 1..Len(values) |-> Gcd(values[i], remainders[i])]]

\* BatchGCD; other_values_prod = None is 0 (both are falsy), unique_values
\* is the order list(set(values)) produced.
BatchGCD(values, other_values_prod, unique_values) ==
  LET ept == ExtendedProductTree(unique_values)
  IN IF ept.err # "none" THEN [err |-> ept.err, gcds |-> <<>>]
     ELSE IF \E l \in 1..Len(ept.prod_tree) : LevelDividesByZero(ept.prod_tree[l])
     THEN [err |-> "ZeroDivisionError", gcds |-> <<>>]
     ELSE LET remainders == RemainderTree(ept.prod_tree,
                                          <<IF other_values_prod # 0
                                            THEN ept.t * other_values_prod ELSE ept.t>>)
              gcds_dict == [v \in SeqToSet(unique_values) |->
                              LET k == CHOOSE k \in 1..Len(unique_values) :
                                         unique_values[k] = v
                              IN Gcd(v, remainders[k])]
          IN [err |-> "none",
              gcds |-> [i \in 1..Len(values) |-> gcds_dict[values[i]]]]

\* FermatFactor: the pair of factors, or <<>> for None.
RECURSIVE FermatLoop(_, _, _)
FermatLoop(a, b2, steps) ==
  IF steps = 0 THEN <<>>
  ELSE IF IsSquare(b2) THEN <<a + Sqrt(b2), a - Sqrt(b2)>>
  ELSE FermatLoop(a + 1, b2 + a + (a + 1), steps - 1)

FermatFactor(n, max_steps) ==
  IF n % 2 = 0 THEN <<2, n \div 2>>
  ELSE IF IsSquare(n) THEN <<Sqrt(n), Sqrt(n)>>
  ELSE FermatLoop(Sqrt(n) + 1, (Sqrt(n) + 1) * (Sqrt(n) + 1) - n, max_steps)

(***************************************************************************)
(* The checks (lib/base_check.py, lib/rsa_single_checks.py,                *)
(* lib/rsa_aggregate_checks.py).                                           *)
(* An artifact is a record with a field test_info; an RSA key also has the *)
(* modulus n and the exponent e.  The outcome of Check(artifacts) is       *)
(* [err, any_weak, artifacts]: err names the exception that left Check     *)
(* ("none" when it returned any_weak).                                     *)
(* The detectors whose verdict depends on number-theoretic structure that  *)
(* toy moduli cannot carry (ROCA fingerprints, deny lists, bit patterns)   *)
(* take their verdict from the oracle [check, target, factors, rev]: the   *)
(* detector named check flags the modulus target, and reports its prime    *)
(* factors iff factors.  The 64-bit window of CheckKeypairDenylist is      *)
(* scaled to KEYPAIR_MSB_BITS bits, so that toy moduli lie on both sides   *)
(* of it.                                                                  *)
(***************************************************************************)
NoErr == "none"

Outcome(err, any_weak, artifacts) ==
  [err |-> err, any_weak |-> any_weak, artifacts |-> artifacts]

\* What a Check loop attaches to an artifact: nothing, a factor set, or a value.
NoAttach == [kind |-> "none"]

\* "if factors: util.AttachFactors(test_info, info_name, factors)"
Factors(info_name, factors) ==
  IF factors = {} THEN NoAttach
  ELSE [kind |-> "factors", info_name |-> info_name, factors |-> factors]

Info(info_name, value) == [kind |-> "info", info_name |-> info_name, value |-> value]

\* What a check decides for one artifact before it writes the result; an
\* artifact the loop does not visit is skipped.
KeyResult(result, severity, attach) ==
  [err |-> NoErr, skip |-> FALSE, result |-> result, severity |-> severity,
   attach |-> attach]

KeySkipped ==
  [err |-> NoErr, skip |-> TRUE, result |-> FALSE, severity |-> SEVERITY_UNKNOWN,
   attach |-> NoAttach]

KeyRaises(err) ==
  [err |-> err, skip |-> FALSE, result |-> FALSE, severity |-> SEVERITY_UNKNOWN,
   attach |-> NoAttach]

\* test_result = self._CreateTestResult(); ...; util.AttachFactors / AttachInfo;
\* util.SetTestResult(artifact.test_info, test_result)
WriteKeyResult(artifact, name, kr) ==
  LET t1 == CASE kr.attach.kind = "factors" ->
                   AttachFactors(artifact.test_info, kr.attach.info_name,
                                 kr.attach.factors)
              [] kr.attach.kind = "info" ->
                   AttachInfo(artifact.test_info, kr.attach.info_name,
                              kr.attach.value)
              [] OTHER -> artifact.test_info
  IN [artifact EXCEPT !.test_info =
        SetTestResult(t1, [test_name |-> name, result |-> kr.result,
                           severity |-> kr.severity])]

\* The loop that stores the results: the artifacts before the first one
\* that raises are written, the exception leaves the loop.
ForEachKey(artifacts, name, krs) ==
  LET n == Len(artifacts)
      raising == {i \in 1..n : krs[i].err # NoErr}
      stop == IF raising = {} THEN n + 1
              ELSE CHOOSE i \in raising : \A j \in raising : i <= j
  IN Outcome(IF stop <= n THEN krs[stop].err ELSE NoErr,
             \E i \in 1..(stop - 1) : krs[i].result,
             [i \in 1..n |-> IF i < stop /\ ~krs[i].skip
                             THEN WriteKeyResult(artifacts[i], name, krs[i])
                             ELSE artifacts[i]])

\* The same loop when it visits the artifacts in the given order of indexes.
WriteInOrder(artifacts, name, krs, order) ==
  LET raising == {k \in 1..Len(order) : krs[order[k]].err # NoErr}
      stop == IF raising = {} THEN Len(order) + 1
              ELSE CHOOSE k \in raising : \A j \in raising : k <= j
      written == {order[k] : k \in 1..(stop - 1)}
  IN Outcome(IF stop <= Len(order) THEN krs[order[stop]].err ELSE NoErr,
             \E i \in written : krs[i].result,
             [i \in 1..Len(artifacts) |->
                IF i \in written /\ ~krs[i].skip
                THEN WriteKeyResult(artifacts[i], name, krs[i])
                ELSE artifacts[i]])

RSA_SIZE_BOUND == 2048
RSA_DEFAULT_E == 65537
FERMAT_MAX_STEPS == 100000
GCDN1_BOUND_BITS == 128
KEYPAIR_MSB_BITS == 5

RSASeverity(name) ==
  CASE name \in {"CheckSizes", "CheckExponents", "CheckROCAVariant"} -> SEVERITY_MEDIUM
    [] name = "CheckROCA" -> SEVERITY_HIGH
    [] name = "CheckGCDN1" -> SEVERITY_UNKNOWN
    [] OTHER -> SEVERITY_CRITICAL

\* Detectors that report a weak key without factors, with factors, or either.
RSAFlagOnly == {"CheckROCA", "CheckROCAVariant", "CheckOpensslDenylist"}

RSAFlagOrFactor == {"CheckContinuedFractions", "CheckPollardpm1", "CheckLowHammingWeight"}

RSAFactorOnly ==
  {"CheckHighAndLowBitsEqual", "CheckBitPatterns", "CheckPermutedBitPatterns",
   "CheckUnseededRand", "CheckSmallUpperDifferences"}

RSAOracleChecks == RSAFlagOnly \cup RSAFlagOrFactor \cup RSAFactorOnly

SmallestFactor(n) == CHOOSE p \in 2..n : n % p = 0 /\ \A q \in 2..(p - 1) : n % q # 0

OracleFactors(orc, n) ==
  IF orc.factors THEN {SmallestFactor(n), n \div SmallestFactor(n)} ELSE {}

\* The loop body of a single-key RSA check.
RSAKeyResult(name, key, orc) ==
  LET sev == RSASeverity(name)
      flagged == orc.check = name /\ orc.target = key.n
  IN CASE name = "CheckSizes" ->
            KeyResult(BitLength(key.n) < RSA_SIZE_BOUND, sev, NoAttach)
       [] name = "CheckExponents" ->
            KeyResult(key.e # RSA_DEFAULT_E, sev, NoAttach)
       [] name = "CheckFermat" ->
            LET factors == FermatFactor(key.n, FERMAT_MAX_STEPS)
            IN KeyResult(factors # <<>>, sev,
                          Factors(INFO_NAME_N_FACTORS, SeqToSet(factors)))
       [] name = "CheckLowHammingWeight" ->
            KeyResult(flagged,
                      IF flagged /\ ~orc.factors THEN SEVERITY_UNKNOWN ELSE sev,
                      Factors(INFO_NAME_N_FACTORS,
                              IF flagged THEN OracleFactors(orc, key.n) ELSE {}))
       [] name = "CheckKeypairDenylist" ->
            \* n >> (n.bit_length() - 64): a negative shift count raises
            IF BitLength(key.n) - KEYPAIR_MSB_BITS < 0 THEN KeyRaises("ValueError")
            ELSE KeyResult(flagged, sev,
                           Factors(INFO_NAME_N_FACTORS,
                                   IF flagged THEN OracleFactors(orc, key.n) ELSE {}))
       [] OTHER ->
            KeyResult(flagged, sev,
                      Factors(INFO_NAME_N_FACTORS,
                              IF flagged THEN OracleFactors(orc, key.n) ELSE {}))

RSASingleCheck(name, artifacts, orc) ==
  ForEachKey(artifacts, name,
             [i \in 1..Len(artifacts) |-> RSAKeyResult(name, artifacts[i], orc)])

\* The loop of CheckGCD.Check over the result of BatchGCD.
StoreGCDResults(artifacts, bg) ==
  IF bg.err # NoErr THEN Outcome(bg.err, FALSE, artifacts)
  ELSE ForEachKey(artifacts, "CheckGCD",
         [i \in 1..Len(artifacts) |->
            IF bg.gcds[i] # 1
            THEN KeyResult(TRUE, RSASeverity("CheckGCD"),
                           Factors(INFO_NAME_N_FACTORS,
                                   {bg.gcds[i], artifacts[i].n \div bg.gcds[i]}))
            ELSE KeyResult(FALSE, RSASeverity("CheckGCD"), NoAttach)])

\* CheckGCD.Check; order is the order of list(set(vals)).
CheckGCD(artifacts, order) ==
  StoreGCDResults(artifacts,
                  BatchGCD([i \in 1..Len(artifacts) |-> artifacts[i].n], 0, order))

\* The loop of CheckGCDN1.Check; gcds[i] >= 2**128 is decided on the bit length.
StoreGCDN1Results(artifacts, bg) ==
  IF bg.err # NoErr THEN Outcome(bg.err, FALSE, artifacts)
  ELSE ForEachKey(artifacts, "CheckGCDN1",
         [i \in 1..Len(artifacts) |->
            IF BitLength(bg.gcds[i]) > GCDN1_BOUND_BITS
            THEN KeyResult(TRUE, RSASeverity("CheckGCDN1"),
                           Factors(INFO_NAME_NM1_FACTORS, {bg.gcds[i]}))
            ELSE KeyResult(FALSE, RSASeverity("CheckGCDN1"), NoAttach)])

\* CheckGCDN1.Check on the values n - 1
CheckGCDN1(artifacts, order) ==
  StoreGCDN1Results(artifacts,
                    BatchGCD([i \in 1..Len(artifacts) |-> artifacts[i].n - 1], 0,
                             [i \in 1..Len(order) |-> order[i] - 1]))

RSACheck(name, artifacts, orc, order) ==
  CASE name = "CheckGCD" -> CheckGCD(artifacts, order)
    [] name = "CheckGCDN1" -> CheckGCDN1(artifacts, order)
    [] OTHER -> RSASingleCheck(name, artifacts, orc)

(***************************************************************************)
(* Elliptic curves and the Cr50 U2F solver (lib/cr50_u2f_weakness.py).     *)
(* The curve registry is scaled: the supported curve is a group of prime   *)
(* order CURVE_ORDER generated by G, a point is the residue it stands for  *)
(* ([k]G is k modulo the order), and the 32-bit words of the Cr50 nonces   *)
(* are CR50_WORD_BITS wide.                                                *)
(***************************************************************************)
CURVE_ORDER == 13
CR50_WORD_BITS == 4
CR50_PATTERN == 5
CR50_COEFF_BOUND == 3

NoCurve == [n |-> 0]

CURVE_FACTORY ==
  <<[curve_id |-> "CURVE_SECP256R1", curve |-> [n |-> CURVE_ORDER]],
    [curve_id |-> "CURVE_UNSUPPORTED", curve |-> NoCurve]>>

\* curve.BatchMultiplyG(guesses), one guess at a time
MultiplyG(curve, k) == k % curve.n

\* ec_util.PublicPoint(ec_info)
PublicPoint(artifact) == artifact.point

\* ec_util.ECDSAValues(ecdsa_sig_info, curve)
ECDSAValues(sig) == <<sig.r, sig.s, sig.z>>

\* gmpy.invert(x, m): 0 when x has no inverse modulo m
Invert(x, m) ==
  IF \E y \in 1..(m - 1) : (x * y) % m = 1
  THEN CHOOSE y \in 1..(m - 1) : (x * y) % m = 1
  ELSE 0

RECURSIVE Pow2(_)
Pow2(k) == IF k = 0 THEN 1 ELSE 2 * Pow2(k - 1)

\* basis = [0x1010101 << j for j in range(0, n.bit_length(), 32)]
Cr50Basis(n) ==
  [j \in 1..((BitLength(n) + CR50_WORD_BITS - 1) \div CR50_WORD_BITS) |->
     CR50_PATTERN * Pow2((j - 1) * CR50_WORD_BITS)]

\* The values sum(c[i] * basis[i]) with small coefficients c[i].
RECURSIVE Cr50Combinations(_)
Cr50Combinations(basis) ==
  IF basis = <<>> THEN {0}
  ELSE {c * Head(basis) + k : c \in 0..(CR50_COEFF_BOUND - 1),
                              k \in Cr50Combinations(Tail(basis))}

\* Cr50U2fSubProblem: the pairs (k1, k2) that the reduced lattice can hold
\* and that pass the test (k1 * a + k2 * b - w) % p == 0.
Cr50U2fSubProblem(a, b, w, p, basis) ==
  {kk \in Cr50Combinations(basis) \X Cr50Combinations(basis) :
     (kk[1] * a + kk[2] * b - w) % p = 0}

\* Cr50U2fGuesses: [err, guesses]
Cr50U2fGuesses(r1, s1, z1, r2, s2, z2, n) ==
  IF BitLength(n) % CR50_WORD_BITS # 0 THEN [err |-> NoErr, guesses |-> {}]
  ELSE LET a == (r2 * s1) % n
           b == (0 - r1 * s2) % n
           w == (r2 * z1 - r1 * z2) % n
           yielded == Cr50U2fSubProblem(a, b, w, n, Cr50Basis(n))
           x1(kk) == ((s1 * kk[1] - z1) * Invert(r1, n)) % n
           x2(kk) == ((s2 * kk[2] - z2) * Invert(r2, n)) % n
       IN IF \E kk \in yielded : x1(kk) # x2(kk)
          THEN [err |-> "ArithmeticError", guesses |-> {}]
          ELSE [err |-> NoErr, guesses |-> {x1(kk) : kk \in yielded}]

(***************************************************************************)
(* The EC key checks (lib/ec_aggregate_checks.py; the single-key checks    *)
(* follow section 4.G of the specification) and the ECDSA signature checks *)
(* (lib/ecdsa_sig_checks.py).  An EC key is [curve_type, point, test_info];*)
(* a signature is [curve_type, point, r, s, z, test_info] with the curve   *)
(* and the public point of its issuer.  The lattice solvers and the        *)
(* discrete-log searches take their finding from the oracle: the detector  *)
(* named check reports target (a point for a key check, a guess of the     *)
(* private key for a nonce check).                                         *)
(***************************************************************************)
SupportedCurves ==
  {CURVE_FACTORY[k].curve_id : k \in {k \in 1..Len(CURVE_FACTORY) :
                                        CURVE_FACTORY[k].curve # NoCurve}}

ECSeverity(name) ==
  CASE name \in {"CheckWeakCurve", "CheckECKeySmallDifference"} -> SEVERITY_HIGH
    [] name = "CheckIssuerKey" -> SEVERITY_UNKNOWN
    [] OTHER -> SEVERITY_CRITICAL

\* Indexes of the artifacts on the curve, in input order.
OnCurve(artifacts, curve_id) ==
  SelectSeq([i \in 1..Len(artifacts) |-> i],
            LAMBDA i : artifacts[i].curve_type = curve_id)

\* The single-key EC checks.
ECKeyResult(name, key, orc) ==
  LET flagged == orc.check = name /\ orc.target = PublicPoint(key)
  IN IF name = "CheckWeakCurve"
     THEN KeyResult(key.curve_type \notin SupportedCurves, ECSeverity(name), NoAttach)
     ELSE KeyResult(flagged, ECSeverity(name), NoAttach)

ECSingleCheck(name, artifacts, orc) ==
  ForEachKey(artifacts, name,
             [i \in 1..Len(artifacts) |-> ECKeyResult(name, artifacts[i], orc)])

\* The body of "for curve_id, curve in CURVE_FACTORY.items()" of
\* CheckECKeySmallDifference.Check.
SmallDifferenceBody(curve_id, artifacts, orc) ==
  LET name == "CheckECKeySmallDifference"
      keys == SeqToSet(OnCurve(artifacts, curve_id))
  IN ForEachKey(artifacts, name,
       [i \in 1..Len(artifacts) |->
          IF i \notin keys THEN KeySkipped
          ELSE IF orc.check = name /\ orc.target = PublicPoint(artifacts[i])
          THEN KeyResult(TRUE, ECSeverity(name), Info(INFO_NAME_DISCRETE_LOG_DIFF, <<1>>))
          ELSE KeyResult(FALSE, ECSeverity(name), NoAttach)])

\* The distinct (r, s, z) of the signatures of one issuer, as the list
\* list({...}) enumerates them: ascending or descending.
TripleKey(t) == (t[1] * (CURVE_ORDER + 1) + t[2]) * (CURVE_ORDER + 1) + t[3]

RECURSIVE SortedTriples(_, _)
SortedTriples(S, rev) ==
  IF S = {} THEN <<>>
  ELSE LET first == CHOOSE t \in S : \A u \in S :
                      IF rev THEN TripleKey(u) <= TripleKey(t)
                      ELSE TripleKey(t) <= TripleKey(u)
       IN <<first>> \o SortedTriples(S \ {first}, rev)

UniqueVals(artifacts, idxs, point, rev) ==
  SortedTriples({ECDSAValues(artifacts[i]) :
                   i \in {j \in idxs : PublicPoint(artifacts[j]) = point}}, rev)

\* The sliding window of CheckCr50U2f.Check over the signatures of one
\* issuer, and the probe of the last one: the results of Cr50U2fGuesses.
Cr50Calls(unique_vals, n) ==
  {Cr50U2fGuesses(unique_vals[i][1], unique_vals[i][2], unique_vals[i][3],
                  unique_vals[i + 1][1], unique_vals[i + 1][2], unique_vals[i + 1][3], n) :
     i \in 1..(Len(unique_vals) - 1)}
  \cup {Cr50U2fGuesses(unique_vals[Len(unique_vals)][1], unique_vals[Len(unique_vals)][2],
                       unique_vals[Len(unique_vals)][3], 1, 1, 0, n)}

\* CollectGuesses with the calls wrapped in a handler that drops the error.
CollectGuessesSwallow(calls) ==
  [err |-> NoErr, guesses |-> UNION {c.guesses : c \in calls}]

\* guesses.update(...) over the calls: the first exception leaves the check.
CollectGuesses(calls) ==
  IF \E c \in calls : c.err # NoErr
  THEN [err |-> (CHOOSE c \in calls : c.err # NoErr).err, guesses |-> {}]
  ELSE [err |-> NoErr, guesses |-> UNION {c.guesses : c \in calls}]

\* The guesses a check collects for the signatures idxs of one curve.
CurveGuesses(name, artifacts, idxs, curve, orc) ==
  IF name = "CheckCr50U2f"
  THEN CollectGuesses(
         UNION {Cr50Calls(UniqueVals(artifacts, idxs, pt, orc.rev), curve.n) :
                  pt \in {PublicPoint(artifacts[i]) : i \in idxs}})
  ELSE [err |-> NoErr, guesses |-> IF orc.check = name THEN {orc.target} ELSE {}]

\* _IssuerDLogs without the test "guess_pk in pks": every guess counts.
IssuerDLogsAnyGuess(guesses, point, curve) == guesses

\* _IssuerDLogs: the guesses whose public key is the given point.
IssuerDLogs(guesses, point, curve) == {g \in guesses : MultiplyG(curve, g) = point}

\* "Store the test results" of BiasedBaseCheck.Check and CheckCr50U2f.Check.
StoreSigResults(name, curve, artifacts, sigs, found) ==
  IF found.err # NoErr THEN Outcome(found.err, FALSE, artifacts)
     ELSE ForEachKey(artifacts, name,
            [i \in 1..Len(artifacts) |->
               IF i \notin sigs THEN KeySkipped
               ELSE LET dlogs == IssuerDLogs(found.guesses, PublicPoint(artifacts[i]), curve)
                    IN IF dlogs # {}
                       THEN KeyResult(TRUE, ECSeverity(name),
                                      Info(INFO_NAME_DISCRETE_LOG,
                                           FormatHex(CHOOSE g \in dlogs :
                                                       \A h \in dlogs : h <= g)))
                       ELSE KeyResult(FALSE, ECSeverity(name), NoAttach)])

\* The body of the curve loop of BiasedBaseCheck.Check and CheckCr50U2f.Check.
SigCurveBody(name, curve_id, curve, artifacts, orc) ==
  IF OnCurve(artifacts, curve_id) = <<>> THEN Outcome(NoErr, FALSE, artifacts)
  ELSE StoreSigResults(name, curve, artifacts, SeqToSet(OnCurve(artifacts, curve_id)),
                       CurveGuesses(name, artifacts,
                                    SeqToSet(OnCurve(artifacts, curve_id)), curve, orc))

\* for curve_id, curve in ec_util.CURVE_FACTORY.items(): if curve is None: continue
RECURSIVE CurveLoop(_, _, _, _, _)
CurveLoopNext(name, k, orc, any_weak, out) ==
  IF out.err # NoErr THEN out
  ELSE CurveLoop(name, k + 1, out.artifacts, orc, any_weak \/ out.any_weak)

CurveLoop(name, k, artifacts, orc, any_weak) ==
  IF k > Len(CURVE_FACTORY) THEN Outcome(NoErr, any_weak, artifacts)
  ELSE IF CURVE_FACTORY[k].curve = NoCurve
  THEN CurveLoop(name, k + 1, artifacts, orc, any_weak)
  ELSE CurveLoopNext(name, k, orc, any_weak,
         IF name = "CheckECKeySmallDifference"
         THEN SmallDifferenceBody(CURVE_FACTORY[k].curve_id, artifacts, orc)
         ELSE SigCurveBody(name, CURVE_FACTORY[k].curve_id,
                           CURVE_FACTORY[k].curve, artifacts, orc))

ECCheck(name, artifacts, orc) ==
  IF name = "CheckECKeySmallDifference" THEN CurveLoop(name, 1, artifacts, orc, FALSE)
  ELSE ECSingleCheck(name, artifacts, orc)

(***************************************************************************)
(* lib/paranoid.py: _CheckArtifacts and the CheckAll* entry points;        *)
(* CheckIssuerKey (lib/ecdsa_sig_checks.py), which calls CheckAllEC.       *)
(***************************************************************************)
\* A Get*Checks call that runs alone, on reg = [factory, constructed].
RECURSIVE ConstructAll(_, _, _)
ConstructAll(reg, key, i) ==
  IF i > Len(LeafClasses(key)) THEN reg
  ELSE LET cls == LeafClasses(key)[i]
       IN ConstructAll(
            [factory |-> [reg.factory EXCEPT
                            ![key] = DictSet(@, cls, reg.constructed[cls] + 1)],
             constructed |-> [reg.constructed EXCEPT ![cls] = @ + 1]],
            key, i + 1)

GetLeafChecks(reg, key) ==
  IF reg.factory[key] # <<>> THEN reg ELSE ConstructAll(reg, key, 1)

GetChecks(reg, key) ==
  IF ~IsMerged(key) THEN GetLeafChecks(reg, key)
  ELSE IF reg.factory[key] # <<>> THEN reg
  ELSE LET r1 == GetLeafChecks(reg, MergedParts(key)[1])
           u1 == DictUpdate(r1.factory[key], r1.factory[MergedParts(key)[1]])
           r2 == GetLeafChecks(r1, MergedParts(key)[2])
       IN [r2 EXCEPT !.factory[key] = DictUpdate(u1, r2.factory[MergedParts(key)[2]])]

\* _CheckArtifacts over EC keys, from check k on, as one computation.
RECURSIVE CheckArtifactsEC(_, _, _, _, _)
CheckArtifactsECNext(check_items, k, orc, any_weak, res) ==
  IF res.err # NoErr THEN res
  ELSE CheckArtifactsEC(check_items, k + 1, res.artifacts, orc, any_weak \/ res.any_weak)

CheckArtifactsEC(check_items, k, artifacts, orc, any_weak) ==
  IF k > Len(check_items) THEN Outcome(NoErr, any_weak, artifacts)
  ELSE CheckArtifactsECNext(check_items, k, orc, any_weak,
                            ECCheck(check_items[k], artifacts, orc))

\* The issuer keys of CheckIssuerKey.Check: one ECKey per distinct point,
\* in the order of the first signature of each.
IssuerKeys(artifacts) ==
  LET firsts == SelectSeq([i \in 1..Len(artifacts) |-> i],
                  LAMBDA i : \A j \in 1..(i - 1) :
                               PublicPoint(artifacts[j]) # PublicPoint(artifacts[i]))
  IN [k \in 1..Len(firsts) |->
        [curve_type |-> artifacts[firsts[k]].curve_type,
         point |-> artifacts[firsts[k]].point,
         test_info |-> EmptyTestInfo]]

\* "Maps the keys back into the signatures": the result of a signature is
\* the one of its issuer key.
IssuerKeyResult(key) ==
  IF key.test_info.weak
  THEN IF GetHighestSeverity(key.test_info) = -1
       THEN KeyRaises("TypeError")
       ELSE KeyResult(TRUE, GetHighestSeverity(key.test_info), NoAttach)
  ELSE KeyResult(FALSE, ECSeverity("CheckIssuerKey"), NoAttach)

\* for key in pks_pb: for i in points[PublicPoint(key.ec_info)]: the indexes
\* of the signatures in the order in which their results are written.
RECURSIVE IssuerKeyWrites(_, _)
IssuerKeyWrites(artifacts, keys) ==
  IF keys = <<>> THEN <<>>
  ELSE SelectSeq([i \in 1..Len(artifacts) |-> i],
                 LAMBDA i : PublicPoint(artifacts[i]) = PublicPoint(Head(keys)))
       \o IssuerKeyWrites(artifacts, Tail(keys))

StoreIssuerResults(artifacts, tested) ==
  IF tested.err # NoErr THEN Outcome(tested.err, FALSE, artifacts)
  ELSE WriteInOrder(artifacts, "CheckIssuerKey",
         [i \in 1..Len(artifacts) |->
            IssuerKeyResult(
              tested.artifacts[CHOOSE k \in 1..Len(tested.artifacts) :
                                 PublicPoint(tested.artifacts[k]) =
                                   PublicPoint(artifacts[i])])],
         IssuerKeyWrites(artifacts, tested.artifacts))

\* CheckIssuerKey.Check; check_items are the items of GetECAllChecks().
CheckIssuerKey(artifacts, orc, check_items) ==
  StoreIssuerResults(artifacts,
                     CheckArtifactsEC(check_items, 1, IssuerKeys(artifacts), orc, FALSE))

CHECK_ALL_RSA == "CheckAllRSA"
CHECK_ALL_EC == "CheckAllEC"
CHECK_ALL_ECDSA == "CheckAllECDSASigs"

\* The Get*AllChecks function of an entry point.
AllChecksOf(fn) ==
  CASE fn = CHECK_ALL_RSA -> RSA_ALL
    [] fn = CHECK_ALL_EC -> EC_ALL
    [] OTHER -> ECDSA_ALL

\* check.Check(artifacts) for the check called name of the entry point fn;
\* ec_items are the items of GetECAllChecks().
RunCheck(fn, name, artifacts, orc, order, ec_items) ==
  CASE fn = CHECK_ALL_RSA -> RSACheck(name, artifacts, orc, order)
    [] fn = CHECK_ALL_EC -> ECCheck(name, artifacts, orc)
    [] OTHER -> IF name = "CheckIssuerKey"
                THEN CheckIssuerKey(artifacts, orc, ec_items)
                ELSE CurveLoop(name, 1, artifacts, orc, FALSE)

(***************************************************************************)
(* Specification SpecOrch: a caller passes a list of artifacts to one of   *)
(* the CheckAll* entry points, and calls it a second time after it         *)
(* returned.  A step of _CheckArtifacts is one check.Check(artifacts).     *)
(* run.status is "idle" before the call, "running" inside the loop,        *)
(* "returned" or "raised" after it; run.first keeps what the first call    *)
(* returned and left in the artifacts.                                     *)
(***************************************************************************)
MaxKeys == 3
MaxSigs == 2

RSAKey(n, e) == [n |-> n, e |-> e, test_info |-> EmptyTestInfo]

ECKey(curve_type, point) ==
  [curve_type |-> curve_type, point |-> point, test_info |-> EmptyTestInfo]

ECDSASignature(curve_type, point, r, s, z) ==
  [curve_type |-> curve_type, point |-> point, r |-> r, s |-> s, z |-> z,
   test_info |-> EmptyTestInfo]

\* 15 is shorter than the window of CheckKeypairDenylist; 21, 33 and 77
\* share their primes pairwise.
RSAKeyPool == {RSAKey(15, RSA_DEFAULT_E), RSAKey(21, 3), RSAKey(33, RSA_DEFAULT_E),
               RSAKey(77, RSA_DEFAULT_E)}

ECKeyPool == {ECKey("CURVE_SECP256R1", 3), ECKey("CURVE_SECP256R1", 4),
              ECKey("CURVE_UNSUPPORTED", 3)}

\* Two signatures of the key 3 with the Cr50 nonces 5 and 10, one of the key
\* 3 with r = 0 and z = 0, one of the key 4 with the nonce 7, and one on a
\* curve that the registry does not support.
SigPool ==
  {ECDSASignature("CURVE_SECP256R1", 3, 5, 11, 1),
   ECDSASignature("CURVE_SECP256R1", 3, 10, 11, 2),
   ECDSASignature("CURVE_SECP256R1", 3, 0, 1, 0),
   ECDSASignature("CURVE_SECP256R1", 4, 7, 10, 3),
   ECDSASignature("CURVE_UNSUPPORTED", 4, 7, 10, 3)}

ListsUpTo(S, m) == UNION {[1..k -> S] : k \in 0..m}

NoOracle == [check |-> "none", target |-> 0, factors |-> FALSE, rev |-> FALSE]

RSAOracles ==
  {NoOracle} \cup
  {o \in [check : RSAOracleChecks \cup {"CheckKeypairDenylist"}, target : {21},
          factors : BOOLEAN, rev : {FALSE}] :
     /\ o.check \in RSAFlagOnly => ~o.factors
     /\ o.check \in RSAFactorOnly \cup {"CheckKeypairDenylist"} => o.factors}

ECOracleChecks == {"CheckValidECKey", "CheckWeakECPrivateKey", "CheckECKeySmallDifference"}

ECOracles ==
  {NoOracle} \cup
  [check : ECOracleChecks, target : {3, 4}, factors : {FALSE}, rev : {FALSE}]

BiasedChecks ==
  {"CheckLCGNonceGMP", "CheckLCGNonceJavaUtilRandom", "CheckNonceMSB",
   "CheckNonceCommonPrefix", "CheckNonceCommonPostfix", "CheckNonceGeneralized"}

SigOracles ==
  [check : {"none"}, target : {0}, factors : {FALSE}, rev : BOOLEAN] \cup
  [check : ECOracleChecks \cup BiasedChecks, target : {3}, factors : {FALSE},
   rev : BOOLEAN]

NoSnapshot == [ret |-> FALSE, artifacts |-> <<>>, set |-> FALSE]

IdleRun(fn) ==
  [fn |-> fn, status |-> "idle", calls |-> 0, check_items |-> <<>>, idx |-> 1,
   any_weak |-> FALSE, err |-> NoErr, ret |-> FALSE, first |-> NoSnapshot]

InitOrch ==
  \/ /\ run = IdleRun(CHECK_ALL_RSA)
     /\ artifact_list \in ListsUpTo(RSAKeyPool, MaxKeys)
     /\ oracle \in RSAOracles
  \/ /\ run = IdleRun(CHECK_ALL_EC)
     /\ artifact_list \in ListsUpTo(ECKeyPool, MaxKeys)
     /\ oracle \in ECOracles
  \/ /\ run = IdleRun(CHECK_ALL_ECDSA)
     /\ artifact_list \in ListsUpTo(SigPool, MaxSigs)
     /\ oracle \in SigOracles

\* No caller: the state of the orchestrator in the other specifications.
NoOrch ==
  /\ run = IdleRun("none")
  /\ artifact_list = <<>>
  /\ oracle = NoOracle

\* return _CheckArtifacts(artifacts, list(Get*AllChecks().items()), log_level):
\* the registry is filled on the first use, the loop starts.
EnterWith(reg) ==
     /\ check_factory' = reg.factory
     /\ constructed' = reg.constructed
     /\ run' = [run EXCEPT !.status = "running", !.calls = @ + 1,
                           !.check_items = DictNames(reg.factory[AllChecksOf(run.fn)]),
                           !.idx = 1, !.any_weak = FALSE, !.err = NoErr,
                           !.first = IF run.status = "returned"
                                     THEN [ret |-> run.ret, artifacts |-> artifact_list,
                                           set |-> TRUE]
                                     ELSE @]
     /\ UNCHANGED <<artifact_list, oracle, notOrch>>

EnterCheckArtifacts ==
  EnterWith(GetChecks([factory |-> check_factory, constructed |-> constructed],
                      AllChecksOf(run.fn)))

CheckAllCall ==
  /\ run.status = "idle"
  /\ EnterCheckArtifacts

CheckAllAgain ==
  /\ run.status = "returned"
  /\ run.calls = 1
  /\ EnterCheckArtifacts

\* CheckIssuerKey calls CheckAllEC, which calls GetECAllChecks().
RegistryAfterCheck ==
  IF run.fn = CHECK_ALL_ECDSA /\ run.check_items[run.idx] = "CheckIssuerKey"
  THEN GetChecks([factory |-> check_factory, constructed |-> constructed], EC_ALL)
  ELSE [factory |-> check_factory, constructed |-> constructed]

\* res = check.Check(artifacts) of the check at run.idx
CheckOutcome(order) ==
  RunCheck(run.fn, run.check_items[run.idx], artifact_list, oracle, order,
           DictNames(RegistryAfterCheck.factory[EC_ALL]))

ModuliOrders ==
  IF run.fn = CHECK_ALL_RSA
  THEN SetOrders({artifact_list[i].n : i \in 1..Len(artifact_list)})
  ELSE {<<>>}

RegistryUpdate(reg) ==
  /\ check_factory' = reg.factory
  /\ constructed' = reg.constructed

\* any_weak = res: the value of the last check alone.
CheckReturnedLast(res) ==
  /\ res.err = NoErr
  /\ artifact_list' = res.artifacts
  /\ run' = [run EXCEPT !.idx = @ + 1, !.any_weak = res.any_weak]

\* any_weak |= res
CheckReturned(res) ==
  /\ res.err = NoErr
  /\ artifact_list' = res.artifacts
  /\ run' = [run EXCEPT !.idx = @ + 1, !.any_weak = @ \/ res.any_weak]

CheckRaised(res) ==
  /\ res.err # NoErr
  /\ artifact_list' = res.artifacts
  /\ run' = [run EXCEPT !.status = "raised", !.err = res.err]

\* for name, check in check_items: res = check.Check(artifacts); any_weak |= res
CheckArtifactsStep ==
  /\ run.status = "running"
  /\ run.idx <= Len(run.check_items)
  /\ \E order \in ModuliOrders : CheckReturned(CheckOutcome(order))
  /\ RegistryUpdate(RegistryAfterCheck)
  /\ UNCHANGED <<oracle, notOrch>>

\* The exception of a check leaves _CheckArtifacts and CheckAll*.
CheckArtifactsRaise ==
  /\ run.status = "running"
  /\ run.idx <= Len(run.check_items)
  /\ \E order \in ModuliOrders : CheckRaised(CheckOutcome(order))
  /\ RegistryUpdate(RegistryAfterCheck)
  /\ UNCHANGED <<oracle, notOrch>>

\* return any_weak
CheckArtifactsReturn ==
  /\ run.status = "running"
  /\ run.idx > Len(run.check_items)
  /\ run' = [run EXCEPT !.status = "returned", !.ret = run.any_weak]
  /\ UNCHANGED <<artifact_list, oracle, check_factory, constructed, notOrch>>

NextOrch ==
  \/ CheckAllCall
  \/ CheckAllAgain
  \/ CheckArtifactsStep
  \/ CheckArtifactsRaise
  \/ CheckArtifactsReturn

(***************************************************************************)
(* randomness_tests/util.py: p-values.  A p-value is a fixed-point number, *)
(* ExpNegTable[1] is 1.0; the p-values of the tests are entries of the     *)
(* table, so that math.log is a lookup.                                    *)
(***************************************************************************)
ExpNegTable ==
  <<1000000, 367879, 135335, 49787, 18316, 6738, 2479, 912, 335, 123, 45, 17, 6, 2, 1>>

\* math.exp(-x), 0 on underflow
ExpNeg(x) == IF x + 1 <= Len(ExpNegTable) THEN ExpNegTable[x + 1] ELSE 0

\* -math.log(p)
NegLog(p) == CHOOSE x \in 0..(Len(ExpNegTable) - 1) : ExpNegTable[x + 1] = p

RECURSIVE Factorial(_)
Factorial(k) == IF k <= 1 THEN 1 ELSE k * Factorial(k - 1)

RECURSIVE Power(_, _)
Power(x, i) == IF i = 0 THEN 1 ELSE x * Power(x, i - 1)

RECURSIVE ErlangSum(_, _, _)
ErlangSum(a, x, i) ==
  IF i >= a THEN 0
  ELSE Power(x, i) * (Factorial(a - 1) \div Factorial(i)) + ErlangSum(a, x, i + 1)

\* scipy gammaincc(a, x) for an integer a: exp(-x) * sum(x^i / i!, i < a)
Igamc(a, x) == (ExpNeg(x) * ErlangSum(a, x, 0)) \div Factorial(a - 1)

RECURSIVE SumNegLog(_)
SumNegLog(pvalues) ==
  IF pvalues = <<>> THEN 0 ELSE NegLog(Head(pvalues)) + SumNegLog(Tail(pvalues))

\* CombinedPValue; its callers never pass an empty list (ValueError).
CombinedPValue(pvalues) ==
  IF Len(pvalues) = 1 THEN pvalues[1]
  ELSE IF \E i \in 1..Len(pvalues) : pvalues[i] = 0 THEN 0
  ELSE Igamc(Len(pvalues), SumNegLog(pvalues))

(***************************************************************************)
(* The tests of the suite, by what a run of them returns: a float, a list  *)
(* of named p-values, or InsufficientDataError.                            *)
(***************************************************************************)
FloatResult(p_value) == [raises |-> FALSE, float |-> TRUE, value |-> p_value, named |-> <<>>]

NamedResult(named) == [raises |-> FALSE, float |-> FALSE, value |-> 0, named |-> named]

InsufficientDataError == [raises |-> TRUE, float |-> FALSE, value |-> 0, named |-> <<>>]

NamedPValue(name, p_value) == [name |-> name, p_value |-> p_value]

\* The p-values a test finds in the bits of the source.
PValues == {ExpNeg(1), ExpNeg(3), ExpNeg(6)}

MATRIX_SIZE == 64

MatrixName(size) ==
  IF size = MATRIX_SIZE THEN "64 * 64"
  ELSE IF size = 2 * MATRIX_SIZE THEN "128 * 128" ELSE "256 * 256"

\* while size * size <= n: p_values.append((f"{size} * {size}", p_value)); size *= 2
RECURSIVE MatrixRankResults(_, _)
MatrixRankResults(size, n) ==
  IF size * size > n THEN {<<>>}
  ELSE {<<NamedPValue(MatrixName(size), p)>> \o rest :
          p \in {ExpNeg(1), 0}, rest \in MatrixRankResults(2 * size, n)}

LargeBinaryMatrixRank(n) ==
  IF n < MATRIX_SIZE * MATRIX_SIZE THEN {InsufficientDataError}
  ELSE {NamedResult(r) : r \in MatrixRankResults(MATRIX_SIZE, n)}

Frequency(n) == {FloatResult(p) : p \in PValues}

MIN_EXCURSIONS == 500

\* The cumulative sums, and the random excursions if excursions >= 500: a
\* walk of n steps returns to 0 at most n / 2 times.
RandomWalk(n) ==
  {NamedResult(<<NamedPValue("cumulative sums forward", ExpNeg(1))>>)}
  \cup {NamedResult(<<NamedPValue("cumulative sums forward", ExpNeg(1)),
                      NamedPValue("random excursions 1", p)>>) :
          p \in IF n >= 2 * MIN_EXCURSIONS THEN PValues ELSE {}}

\* test.__name__ as a string of characters, for startswith
TESTS ==
  <<[name |-> "Frequency", chars |-> <<"F", "r", "e", "q", "u", "e", "n", "c", "y">>],
    [name |-> "RandomWalk", chars |-> <<"R", "a", "n", "d", "o", "m", "W", "a", "l", "k">>],
    [name |-> "LargeBinaryMatrixRank",
     chars |-> <<"L", "a", "r", "g", "e", "B", "i", "n", "a", "r", "y", "M", "a", "t",
                 "r", "i", "x", "R", "a", "n", "k">>]>>

\* self.test(bits, n, *self.params), over the bits a source can give
TestOutcomes(test, n) ==
  CASE test = "Frequency" -> Frequency(n)
    [] test = "RandomWalk" -> RandomWalk(n)
    [] OTHER -> LargeBinaryMatrixRank(n)

StartsWith(chars, prefix) ==
  /\ Len(prefix) <= Len(chars)
  /\ SubSeq(chars, 1, Len(prefix)) = prefix

(***************************************************************************)
(* random_test_suite.TestStructure                                         *)
(***************************************************************************)
STATE_PASSED == "PASSED"
STATE_UNDECIDED == "UNDECIDED"
STATE_FAILED == "FAILED"

EmptyDict == [x \in {} |-> 0]

DictPut(dict, key, value) ==
  [x \in DOMAIN dict \cup {key} |-> IF x = key THEN value ELSE dict[x]]

\* defaultdict(list): self.p_values[name]
DictGetList(dict, key) == IF key \in DOMAIN dict THEN dict[key] ELSE <<>>

TestStructure(test, p_value_fail, p_value_repeat, min_repetitions) ==
  [test |-> test, p_value_fail |-> p_value_fail, p_value_repeat |-> p_value_repeat,
   min_repetitions |-> min_repetitions, p_values |-> EmptyDict,
   combined_p_values |-> EmptyDict, state |-> EmptyDict, finished |-> FALSE, runs |-> 0]

\* A sub-test state that the first p-value decides for good once it fails.
SubTestStateFirstFails(self, pvals) ==
  IF pvals[1] < self.p_value_fail \/ CombinedPValue(pvals) < self.p_value_fail
  THEN STATE_FAILED
  ELSE IF CombinedPValue([i \in 1..Len(pvals) |-> self.p_value_repeat])
            < CombinedPValue(pvals)
  THEN STATE_PASSED
  ELSE STATE_UNDECIDED

\* The state of one sub-test after its p-value was appended.
SubTestState(self, pvals) ==
  IF CombinedPValue(pvals) < self.p_value_fail THEN STATE_FAILED
  ELSE IF CombinedPValue([i \in 1..Len(pvals) |-> self.p_value_repeat])
            < CombinedPValue(pvals)
  THEN STATE_PASSED
  ELSE STATE_UNDECIDED

\* "Merges results": for name, p_value in test_result
RECURSIVE MergeResults(_, _, _, _)
MergeNamed(self, test_result, k, undecided, name, pvals) ==
  MergeResults([self EXCEPT !.p_values = DictPut(@, name, pvals),
                            !.combined_p_values = DictPut(@, name, CombinedPValue(pvals)),
                            !.state = DictPut(@, name, SubTestState(self, pvals))],
               test_result, k + 1,
               IF SubTestState(self, pvals) = STATE_UNDECIDED
               THEN undecided + 1 ELSE undecided)

MergeResults(self, test_result, k, undecided) ==
  IF k > Len(test_result)
  THEN [self EXCEPT !.finished = undecided = 0 /\ self.runs >= self.min_repetitions]
  ELSE MergeNamed(self, test_result, k, undecided, test_result[k].name,
                  Append(DictGetList(self.p_values, test_result[k].name),
                         test_result[k].p_value))

\* TestStructure.Run that records an InsufficientDataError as a failed test.
RunSkipFails(self, test_result) ==
  IF test_result.raises
  THEN [self EXCEPT !.runs = @ + 1, !.finished = TRUE,
                    !.state = DictPut(@, "result", STATE_FAILED)]
  ELSE MergeResults([self EXCEPT !.runs = @ + 1],
                    IF test_result.float
                    THEN <<NamedPValue("result", test_result.value)>>
                    ELSE test_result.named, 1, 0)

\* TestStructure.Run; it returns self.finished.
Run(self, test_result) ==
  IF test_result.raises
  THEN [self EXCEPT !.runs = @ + 1, !.finished = TRUE]
  ELSE MergeResults([self EXCEPT !.runs = @ + 1],
                    IF test_result.float
                    THEN <<NamedPValue("result", test_result.value)>>
                    ELSE test_result.named, 1, 0)

Failed(self) == \E name \in DOMAIN self.state : self.state[name] = STATE_FAILED

(***************************************************************************)
(* Specification SpecRand: a caller runs TestSource or TestBitString.  A   *)
(* step of the loop is one test_struct; suite.status is "idle" before the  *)
(* call, "running" inside it and "returned" after it.  The value returned  *)
(* is "True", "False" or "None".                                           *)
(***************************************************************************)
MaxRuns == 3

TEST_SOURCE == "TestSource"
TEST_BIT_STRING == "TestBitString"

\* The lengths of the bit strings, below and above the sizes of the matrices.
BitLengths == {500, 5000, 20000}

\* test_prefix; None and "" are the empty prefix.
TestPrefixes == {<<>>, <<"F">>, <<"R", "a", "n", "d", "o", "m">>, <<"L", "a">>, <<"X">>}

SIGNIFICANCE_LEVEL_REPEAT == ExpNeg(2)
SIGNIFICANCE_LEVEL_FAIL == ExpNeg(5)

PyBool(b) == IF b THEN "True" ELSE "False"

IdleSuite(fn, n, test_prefix, min_repetitions) ==
  [fn |-> fn, status |-> "idle", n |-> n, test_prefix |-> test_prefix,
   min_repetitions |-> min_repetitions, pos |-> 1, undecided |-> 0, ret |-> "None",
   significance_level_repeat |-> SIGNIFICANCE_LEVEL_REPEAT]

\* The values of significance_level_repeat of the callers: the one above, and
\* 1.0, the largest p-value.
RepeatLevels == {SIGNIFICANCE_LEVEL_REPEAT, ExpNeg(0)}

InitSuite ==
  /\ tests = <<>>
  /\ \/ \E n \in BitLengths, test_prefix \in TestPrefixes, min_repetitions \in 1..2,
           level \in RepeatLevels :
          suite = [IdleSuite(TEST_SOURCE, n, test_prefix, min_repetitions)
                     EXCEPT !.significance_level_repeat = level]
     \/ \E n \in BitLengths, test_prefix \in TestPrefixes :
          suite = IdleSuite(TEST_BIT_STRING, n, test_prefix, 1)

\* No caller: the state of the suite in the other specifications.
NoSuite ==
  /\ tests = <<>>
  /\ suite = IdleSuite("none", 0, <<>>, 1)

\* for test, params in TESTS: if not test_prefix or test.__name__.startswith(...)
RECURSIVE SelectTests(_, _, _, _, _)
SelectTests(k, test_prefix, p_value_fail, p_value_repeat, min_repetitions) ==
  IF k > Len(TESTS) THEN <<>>
  ELSE (IF test_prefix = <<>> \/ StartsWith(TESTS[k].chars, test_prefix)
        THEN <<TestStructure(TESTS[k].name, p_value_fail, p_value_repeat,
                             min_repetitions)>>
        ELSE <<>>)
       \o SelectTests(k + 1, test_prefix, p_value_fail, p_value_repeat, min_repetitions)

\* TestSource up to the first bits = source(n); "if not tests: return"
TestSourceSelected(selected) ==
  /\ tests' = selected
  /\ suite' = IF selected = <<>>
              THEN [suite EXCEPT !.status = "returned", !.ret = "None"]
              ELSE [suite EXCEPT !.status = "running", !.pos = 1, !.undecided = 0]
  /\ UNCHANGED notRand

TestSourceCall ==
  /\ suite.status = "idle"
  /\ suite.fn = TEST_SOURCE
  /\ TestSourceSelected(SelectTests(1, suite.test_prefix, SIGNIFICANCE_LEVEL_FAIL,
                                    suite.significance_level_repeat,
                                    suite.min_repetitions))

\* A loop that does not count the tests that Run left unfinished.
TestSourceRanUncounted(test_struct) ==
  /\ tests' = [tests EXCEPT ![suite.pos] = test_struct]
  /\ suite' = [suite EXCEPT !.pos = @ + 1]
  /\ UNCHANGED notRand

\* if test_struct.Run(bits, n): LogState else: undecided += 1
TestSourceRan(test_struct) ==
  /\ tests' = [tests EXCEPT ![suite.pos] = test_struct]
  /\ suite' = [suite EXCEPT !.pos = @ + 1,
                            !.undecided = IF test_struct.finished THEN @ ELSE @ + 1]
  /\ UNCHANGED notRand

\* One test_struct of "for test_struct in tests" that is not finished.
TestSourceRun ==
  /\ suite.status = "running"
  /\ suite.fn = TEST_SOURCE
  /\ suite.pos <= Len(tests)
  /\ ~tests[suite.pos].finished
  /\ tests[suite.pos].runs < MaxRuns
  /\ \E test_result \in TestOutcomes(tests[suite.pos].test, suite.n) :
       TestSourceRan(Run(tests[suite.pos], test_result))

\* if test_struct.finished: continue
TestSourceContinue ==
  /\ suite.status = "running"
  /\ suite.fn = TEST_SOURCE
  /\ suite.pos <= Len(tests)
  /\ tests[suite.pos].finished
  /\ suite' = [suite EXCEPT !.pos = @ + 1]
  /\ UNCHANGED <<tests, notRand>>

\* while undecided: bits = source(n); undecided = 0
TestSourceRepeat ==
  /\ suite.status = "running"
  /\ suite.fn = TEST_SOURCE
  /\ suite.pos > Len(tests)
  /\ suite.undecided # 0
  /\ suite' = [suite EXCEPT !.pos = 1, !.undecided = 0]
  /\ UNCHANGED <<tests, notRand>>

\* return any(test.Failed() for test in tests)
TestSourceReturn ==
  /\ suite.status = "running"
  /\ suite.fn = TEST_SOURCE
  /\ suite.pos > Len(tests)
  /\ suite.undecided = 0
  /\ suite' = [suite EXCEPT !.status = "returned",
                            !.ret = PyBool(\E i \in 1..Len(tests) : Failed(tests[i]))]
  /\ UNCHANGED <<tests, notRand>>

\* TestBitString: significance_level is both p_value_fail and p_value_repeat
TestBitStringCall ==
  /\ suite.status = "idle"
  /\ suite.fn = TEST_BIT_STRING
  /\ tests' = SelectTests(1, suite.test_prefix, SIGNIFICANCE_LEVEL_FAIL,
                          SIGNIFICANCE_LEVEL_FAIL, 1)
  /\ suite' = [suite EXCEPT !.status = "running", !.pos = 1]
  /\ UNCHANGED notRand

\* for test_struct in tests: test_struct.Run(bits, n); test_struct.LogState(...)
TestBitStringRun ==
  /\ suite.status = "running"
  /\ suite.fn = TEST_BIT_STRING
  /\ suite.pos <= Len(tests)
  /\ \E test_result \in TestOutcomes(tests[suite.pos].test, suite.n) :
       tests' = [tests EXCEPT ![suite.pos] = Run(@, test_result)]
  /\ suite' = [suite EXCEPT !.pos = @ + 1]
  /\ UNCHANGED notRand

TestBitStringReturn ==
  /\ suite.status = "running"
  /\ suite.fn = TEST_BIT_STRING
  /\ suite.pos > Len(tests)
  /\ suite' = [suite EXCEPT !.status = "returned",
                            !.ret = PyBool(\E i \in 1..Len(tests) : Failed(tests[i]))]
  /\ UNCHANGED <<tests, notRand>>

NextSuite ==
  \/ TestSourceCall
  \/ TestSourceRun
  \/ TestSourceContinue
  \/ TestSourceRepeat
  \/ TestSourceReturn
  \/ TestBitStringCall
  \/ TestBitStringRun
  \/ TestBitStringReturn

(***************************************************************************)
(* The specifications: every component starts in its initial state, and a  *)
(* specification runs the actions of one component.                        *)
(***************************************************************************)
(***************************************************************************)
(* ntheory_util.py: inverses and square roots modulo 2**k. An Optional[int] *)
(* is <<>> for None and <<a>> for the integer a.                           *)
(***************************************************************************)
Min(a, b) == IF a <= b THEN a ELSE b

\* DivmodRounded(a, b) for b > 0: <<q, r>>
DivmodRounded(a, b) ==
  <<(a + ((b + 1) \div 2)) \div b,
    ((a + ((b + 1) \div 2)) % b) - ((b + 1) \div 2)>>

\* gmpy.lowbits(x, t)
Lowbits(x, t) == x % Pow2(t)

RECURSIVE Inverse2expLoop(_, _, _, _)
Inverse2expLoop(n, k, a, t) ==
  IF t >= k THEN a
  ELSE Inverse2expLoop(n, k, Lowbits(a * (2 - a * n), Min(k, 2 * t)), Min(k, 2 * t))

Inverse2exp(n, k) ==
  IF n % 2 = 0 THEN <<>> ELSE <<Inverse2expLoop(n, k, n % 4, 2)>>

RECURSIVE InverseSqrt2expLoop(_, _, _, _)
InverseSqrt2expLoop(n, k, a, t) ==
  IF t >= k THEN a
  ELSE InverseSqrt2expLoop(n, k,
         Lowbits((a * (3 - a * a * n)) \div 2, Min(k, 2 * t - 2)), Min(k, 2 * t - 2))

InverseSqrt2exp(n, k) ==
  IF k < 3
  THEN LET found == {a \in 0..(Pow2(k) - 1) : (a * a * n) % Pow2(k) = 1}
       IN IF found = {} THEN <<>>
          ELSE <<CHOOSE a \in found : \A b \in found : a <= b>>
  ELSE IF n % 8 # 1 THEN <<>>
  ELSE <<InverseSqrt2expLoop(n, k, 1, 3)>>

\* The ascending list of the elements of a set of integers.
RECURSIVE Ascend(_)
Ascend(S) ==
  IF S = {} THEN <<>>
  ELSE LET x == CHOOSE x \in S : \A y \in S : x <= y IN <<x>> \o Ascend(S \ {x})

\* Sqrt2exp with the last two roots not reduced by lowbits.
Sqrt2expUnreduced(n, k) ==
  IF n % 2 = 0 \/ k < 0 THEN [err |-> "ValueError", roots |-> <<>>]
  ELSE IF k < 3
  THEN [err |-> "none",
        roots |-> Ascend({x \in 0..(Pow2(k) - 1) : (x * x - n) % Pow2(k) = 0})]
  ELSE IF InverseSqrt2exp(n, k) = <<>> THEN [err |-> "none", roots |-> <<>>]
  ELSE LET r == Inverse2exp(InverseSqrt2exp(n, k)[1], k)[1]
       IN [err |-> "none",
           roots |-> <<r, Pow2(k) - r, Pow2(k - 1) - r, Pow2(k - 1) + r>>]

Sqrt2exp(n, k) ==
  IF n % 2 = 0 \/ k < 0 THEN [err |-> "ValueError", roots |-> <<>>]
  ELSE IF k < 3
  THEN [err |-> "none",
        roots |-> Ascend({x \in 0..(Pow2(k) - 1) : (x * x - n) % Pow2(k) = 0})]
  ELSE IF InverseSqrt2exp(n, k) = <<>> THEN [err |-> "none", roots |-> <<>>]
  ELSE LET r == Inverse2exp(InverseSqrt2exp(n, k)[1], k)[1]
       IN [err |-> "none",
           roots |-> <<r, Pow2(k) - r, Lowbits(Pow2(k - 1) - r, k),
                       Lowbits(Pow2(k - 1) + r, k)>>]

(***************************************************************************)
(* linalg_util.py: fraction-free Gauss elimination over the integers. The  *)
(* indexes i, j, k count from 0 as in the code; None and the empty list    *)
(* are both <<>> ("if b:" is false for both). A rational is <<num, den>>.   *)
(***************************************************************************)
\* s.pop(i) leaves this list
Pop(s, i) == SubSeq(s, 1, i) \o SubSeq(s, i + 2, Len(s))

\* s.insert(idx, x): an index beyond the end appends
Insert(s, idx, x) ==
  SubSeq(s, 1, Min(idx, Len(s))) \o <<x>> \o SubSeq(s, Min(idx, Len(s)) + 1, Len(s))

\* s.insert(nrows, s.pop(i))
MoveToBottom(s, i, nrows) == Insert(Pop(s, i), nrows, s[i + 1])

MoveIfGiven(b, i, nrows) == IF b # <<>> THEN MoveToBottom(b, i, nrows) ELSE b

\* x // d for d # 0
FloorDiv(x, d) == IF d > 0 THEN x \div d ELSE (0 - x) \div (0 - d)

Divides(d, x) == x = d * FloorDiv(x, d)

\* "Searches for a non-zero pivot"
RECURSIVE PivotLoop(_, _, _, _)
PivotLoop(st, i, n, pivots) ==
  IF pivots < n - 1 /\ st.a[i + 1][i + 1] = 0
  THEN PivotLoop([st EXCEPT !.a = MoveToBottom(st.a, i, st.nrows),
                            !.b = MoveIfGiven(st.b, i, st.nrows)],
                 i, n, pivots + 1)
  ELSE st

\* for k in range(i + 1, ncols): a[j][k] = ...; a[j][i] = 0
EliminatedRow(a, i, j) ==
  [k \in 1..Len(a[j + 1]) |->
     IF k - 1 > i THEN a[i + 1][i + 1] * a[j + 1][k] - a[j + 1][i + 1] * a[i + 1][k]
     ELSE IF k - 1 = i THEN 0
     ELSE a[j + 1][k]]

AllZeros(row, i) == \A k \in (i + 2)..Len(row) : row[k] = 0

\* b[j] = a[i][i] * b[j] - a[j][i] * b[i]
EliminatedB(a, b, i, j) ==
  IF b # <<>>
  THEN [b EXCEPT ![j + 1] = a[i + 1][i + 1] * b[j + 1] - a[j + 1][i + 1] * b[i + 1]]
  ELSE b

\* while j < nrows
RECURSIVE RowLoop(_, _, _, _)
RowLoop(st, i, j, n) ==
  IF j >= st.nrows THEN st
  ELSE IF AllZeros(EliminatedRow(st.a, i, j), i)
  THEN RowLoop(
         [st EXCEPT !.a = MoveToBottom([st.a EXCEPT ![j + 1] = EliminatedRow(st.a, i, j)],
                                       j, st.nrows),
                    !.b = MoveIfGiven(EliminatedB(st.a, st.b, i, j), j, st.nrows),
                    !.nrows = st.nrows - 1],
         i, j, n)
  ELSE RowLoop(
         [st EXCEPT !.a = [st.a EXCEPT ![j + 1] = EliminatedRow(st.a, i, j)],
                    !.b = EliminatedB(st.a, st.b, i, j),
                    !.rank = IF st.rank < n THEN st.rank + 1 ELSE st.rank],
         i, j + 1, n)

\* if i >= 1: the divisions by a[i - 1][i - 1] of the rows i + 1 .. nrows - 1
DivideRows(st, i) ==
  IF i < 1 \/ i + 1 >= st.nrows THEN st
  ELSE IF st.a[i][i] = 0 THEN [st EXCEPT !.err = "ZeroDivisionError"]
  ELSE [st EXCEPT
          !.a = [j \in 1..Len(st.a) |->
                   IF j - 1 > i /\ j - 1 < st.nrows
                   THEN [k \in 1..Len(st.a[j]) |->
                           IF k - 1 > i THEN FloorDiv(st.a[j][k], st.a[i][i])
                           ELSE st.a[j][k]]
                   ELSE st.a[j]],
          !.b = [j \in 1..Len(st.b) |->
                   IF j - 1 > i /\ j - 1 < st.nrows
                   THEN FloorDiv(st.b[j], st.a[i][i]) ELSE st.b[j]],
          !.exact = /\ st.exact
                    /\ \A j \in (i + 2)..st.nrows :
                         /\ \A k \in (i + 2)..Len(st.a[j]) : Divides(st.a[i][i], st.a[j][k])
                         /\ st.b # <<>> => Divides(st.a[i][i], st.b[j])]

\* while i < n - 1
RECURSIVE EchelonLoop(_, _, _)
EchelonLoop(st, i, n) ==
  IF i >= n - 1 \/ st.err # NoErr THEN st
  ELSE EchelonLoop(DivideRows(RowLoop(PivotLoop(st, i, n, i), i, i + 1, n), i), i + 1, n)

\* "Corner case for the last row being zero"
LastRowCase(st) ==
  IF st.err = NoErr /\ \A k \in 1..Len(st.a[st.nrows]) : st.a[st.nrows][k] = 0
  THEN [st EXCEPT !.rank = st.rank - 1]
  ELSE st

\* echelon_form(a, b): the rank it returns, a and b as it leaves them, and
\* whether every division was exact.
echelon_form(a, b) ==
  IF b # <<>> /\ Len(a) # Len(b)
  THEN [err |-> "ValueError", a |-> a, b |-> b, nrows |-> Len(a), rank |-> 0,
        exact |-> TRUE]
  ELSE LastRowCase(EchelonLoop([err |-> NoErr, a |-> a, b |-> b, nrows |-> Len(a),
                                rank |-> 1, exact |-> TRUE],
                               0, Min(Len(a), Len(a[1]))))

\* gmpy.mpq(num, den) in lowest terms with a positive denominator
Mpq(num, den) ==
  LET g == Gcd(IF num < 0 THEN 0 - num ELSE num, IF den < 0 THEN 0 - den ELSE den)
      sg == IF den < 0 THEN 0 - 1 ELSE 1
  IN <<sg * (num \div g), sg * (den \div g)>>

\* Rationals: r - x * s, and num / den for rationals num and an integer den
MpqSubMul(r, x, s) == Mpq(r[1] * s[2] - x * s[1] * r[2], r[2] * s[2])

RECURSIVE RowSum(_, _, _, _)
RowSum(row, xs, j, acc) ==
  IF j > Len(row) THEN acc
  ELSE RowSum(row, xs, j + 1, MpqSubMul(acc, row[j], xs[j]))

\* for i in range(nrows - 1, -1, -1); None is <<>>
RECURSIVE TriangularLoop(_, _, _, _)
TriangularLoop(a, b, i, xs) ==
  IF i < 1 THEN xs
  ELSE IF a[i][i] = 0 THEN <<>>
  ELSE TriangularLoop(a, b, i - 1,
         [xs EXCEPT ![i] = Mpq(RowSum(a[i], xs, i + 1, <<b[i], 1>>)[1],
                               RowSum(a[i], xs, i + 1, <<b[i], 1>>)[2] * a[i][i])])

upper_triangular_solve(a, b) ==
  IF Len(a) # Len(a[1]) \/ Len(a) # Len(b) THEN [err |-> "ValueError", x |-> <<>>]
  ELSE [err |-> NoErr,
        x |-> TriangularLoop(a, b, Len(a), [j \in 1..Len(a[1]) |-> <<0, 1>>])]

SolveEchelon(ech, ncols) ==
  IF ech.err # NoErr THEN [err |-> ech.err, x |-> <<>>]
  ELSE IF ech.rank # ncols THEN [err |-> NoErr, x |-> <<>>]
  ELSE upper_triangular_solve(SubSeq(ech.a, 1, ech.rank), SubSeq(ech.b, 1, ech.rank))

solve_right(a, b) ==
  IF Len(a) # Len(b) \/ Len(a) < Len(a[1]) THEN [err |-> "ValueError", x |-> <<>>]
  ELSE SolveEchelon(echelon_form(a, b), Len(a[1]))

(***************************************************************************)
(* hidden_number_problem.py: the subsets of signatures that are tested     *)
(* against the precomputed LCG constants. SearchStrategy flags are a set   *)
(* of flag names.                                                          *)
(***************************************************************************)
\* lcg_constants.CONSTANT_FACTORY: the catalog, with small thresholds.
CONSTANT_FACTORY ==
  <<[curve |-> "CURVE_SECP256R1", lcg |-> "GMP", sample_size |-> 4,
     min_signatures |-> 2, sliding_window_size |-> 3,
     constants |-> <<<<1, 2>>, <<3, 4>>, <<5, 6>>>>, w |-> 1],
    [curve |-> "CURVE_SECP256R1", lcg |-> "JAVA_UTIL_RANDOM", sample_size |-> 2,
     min_signatures |-> 2, sliding_window_size |-> 2,
     constants |-> <<<<7, 8>>, <<9, 10>>>>, w |-> 2],
    [curve |-> "CURVE_SECP256K1", lcg |-> "GMP", sample_size |-> 3,
     min_signatures |-> 1, sliding_window_size |-> 1,
     constants |-> <<<<11, 12>>>>, w |-> 1]>>

\* s[i:j] for 0 <= i
Slice(s, i, j) == SubSeq(s, i + 1, Min(j, Len(s)))

Yield(a0, b0, constant_list, num_constants, w) ==
  [a0 |-> a0, b0 |-> b0, constants |-> Slice(constant_list, 0, num_constants), w |-> w]

\* The SLIDING branch: one subset per window.
SlidingSubsets(a, b, constants) ==
  [k \in 1..(Len(a) - constants.sliding_window_size + 1) |->
     Yield(Slice(a, k - 1, k - 1 + constants.sliding_window_size),
           Slice(b, k - 1, k - 1 + constants.sliding_window_size),
           constants.constants,
           (constants.sample_size - 1) \div constants.sliding_window_size + 1,
           constants.w)]

\* The SINGLE branch: one subset of min(len(a), 2 * sample_size) signatures.
SingleSubset(a, b, constants) ==
  <<Yield(Slice(a, 0, Min(Len(a), 2 * constants.sample_size)),
          Slice(b, 0, Min(Len(a), 2 * constants.sample_size)),
          constants.constants,
          (constants.sample_size - 1) \div Min(Len(a), 2 * constants.sample_size) + 1,
          constants.w)>>

\* tests_done after the SLIDING branch.
TestsDone(a, constants, flags) ==
  IF "SLIDING" \in flags THEN Len(SlidingSubsets(a, a, constants)) ELSE 0

\* EntrySubsets where the wide subset is yielded only for the flag SINGLE.
EntrySubsetsSingleFlag(a, b, constants, flags) ==
  IF Len(a) > constants.sliding_window_size
  THEN (IF "SLIDING" \in flags THEN SlidingSubsets(a, b, constants) ELSE <<>>)
       \o (IF "SINGLE" \in flags THEN SingleSubset(a, b, constants) ELSE <<>>)
  ELSE IF Len(a) >= constants.min_signatures
  THEN <<Yield(a, b, constants.constants, (constants.sample_size - 1) \div Len(a) + 1,
               constants.w)>>
  ELSE IF Len(a) = constants.min_signatures - 1 /\ "INCLUDE_KEY" \in flags
  THEN <<Yield(a \o <<0>>, b \o <<1>>, constants.constants,
               (constants.sample_size - 1) \div (Len(a) + 1) + 1, constants.w)>>
  ELSE <<>>

\* The body of the loop over the catalog for one matching entry.
EntrySubsets(a, b, constants, flags) ==
  IF Len(a) > constants.sliding_window_size
  THEN (IF "SLIDING" \in flags THEN SlidingSubsets(a, b, constants) ELSE <<>>)
       \o (IF "SINGLE" \in flags \/ TestsDone(a, constants, flags) = 0
            THEN SingleSubset(a, b, constants) ELSE <<>>)
  ELSE IF Len(a) >= constants.min_signatures
  THEN <<Yield(a, b, constants.constants, (constants.sample_size - 1) \div Len(a) + 1,
               constants.w)>>
  ELSE IF Len(a) = constants.min_signatures - 1 /\ "INCLUDE_KEY" \in flags
  THEN <<Yield(a \o <<0>>, b \o <<1>>, constants.constants,
               (constants.sample_size - 1) \div (Len(a) + 1) + 1, constants.w)>>
  ELSE <<>>

\* for constants in lcg_constants.CONSTANT_FACTORY; lcg = "None" is None.
RECURSIVE CatalogLoop(_, _, _, _, _, _)
CatalogLoop(a, b, curve_type, lcg, flags, k) ==
  IF k > Len(CONSTANT_FACTORY) THEN <<>>
  ELSE (IF CONSTANT_FACTORY[k].curve # curve_type
           \/ lcg \notin {CONSTANT_FACTORY[k].lcg, "None"}
        THEN <<>>
        ELSE EntrySubsets(a, b, CONSTANT_FACTORY[k], flags))
       \o CatalogLoop(a, b, curve_type, lcg, flags, k + 1)

\* _HiddenNumberProblemSubsets: what the generator raises or yields.
HiddenNumberProblemSubsets(a, b, curve_type, lcg, flags) ==
  IF flags = {} THEN [err |-> "ValueError", subsets |-> <<>>]
  ELSE [err |-> "none", subsets |-> CatalogLoop(a, b, curve_type, lcg, flags, 1)]

(***************************************************************************)
(* rsa_util.py: FactorHighAndLowBitsEqual with middle_bits = 3.            *)
(***************************************************************************)
MIDDLE_BITS == 3

\* ((s ^ r) >> i) & 1 for i < k; r = 2**k - r0 can be negative, its bits
\* below k are those of r mod 2**k.
BitsDiffer(s, r, k, i) == (s \div Pow2(i)) % 2 # ((r % Pow2(k)) \div Pow2(i)) % 2

\* for _ in range(2**m): s += 2**(i - m); d = s**2 - n; if is_square(d): return
RECURSIVE MiddleLoop(_, _, _, _)
MiddleLoop(n, s, step, count) ==
  IF count = 0 THEN [found |-> FALSE, s |-> s]
  ELSE IF IsSquare((s + step) * (s + step) - n) THEN [found |-> TRUE, s |-> s + step]
  ELSE MiddleLoop(n, s + step, step, count - 1)

\* for i in range(k)
RECURSIVE BitLoop(_, _, _, _, _)
BitLoopNext(n, r, k, i, res) ==
  IF res.found
  THEN <<res.s - Sqrt(res.s * res.s - n), res.s + Sqrt(res.s * res.s - n)>>
  ELSE BitLoop(n, r, k, i + 1, res.s)

BitLoop(n, r, k, i, s) ==
  IF i >= k THEN <<>>
  ELSE IF BitsDiffer(s, r, k, i)
  THEN BitLoopNext(n, r, k, i,
                   MiddleLoop(n, s, Pow2(i - Min(MIDDLE_BITS, i)),
                              Pow2(Min(MIDDLE_BITS, i))))
  ELSE BitLoop(n, r, k, i + 1, s)

\* for r in [r0, 2**k - r0]
RootLoop(n, k, r0, a) ==
  IF BitLoop(n, r0, k, 0, a) # <<>> THEN BitLoop(n, r0, k, 0, a)
  ELSE BitLoop(n, Pow2(k) - r0, k, 0, a)

FactorHighAndLowBitsEqual(n) ==
  IF BitLength(n) < 6 \/ n % 8 # 1 THEN [err |-> "none", factors |-> <<>>]
  ELSE LET k == (BitLength(n) + 1) \div 2
       IN IF InverseSqrt2exp(n, k + 1) = <<>>
          THEN [err |-> "TypeError", factors |-> <<>>]
          ELSE [err |-> "none",
                factors |-> RootLoop(n, k,
                                     Inverse2exp(InverseSqrt2exp(n, k + 1)[1], k + 1)[1],
                                     Sqrt(n - 1) + 1)]

(***************************************************************************)
(* special_case_factoring.py: FactorWithGuess. A list of factors is <<>>   *)
(* for None.                                                               *)
(***************************************************************************)
\* ContinuedFraction(a, b): the list of the triples (q, r, t)
RECURSIVE ContinuedFractionLoop(_, _, _, _, _, _, _)
ContinuedFractionLoop(a, b, r, s, t, u, res) ==
  IF b = 0 THEN res
  ELSE ContinuedFractionLoop(b, a % b, r * (a \div b) + s, r, t * (a \div b) + u, t,
                             Append(res, <<a \div b, r * (a \div b) + s,
                                           t * (a \div b) + u>>))

ContinuedFraction(a, b) == ContinuedFractionLoop(a, b, 1, 0, 0, 1, <<>>)

\* int(n ** (1 / 3)) for n below 2**156 (shift = 0); the float cube root is
\* exact enough for the moduli of the model, none of which is a cube.
CubeRootBound(n) == CHOOSE c \in 0..n : c * c * c <= n /\ n < (c + 1) * (c + 1) * (c + 1)

AbsDiff(x, y) == IF x >= y THEN x - y ELSE y - x

\* Fermat's method on d = 4 * u * v * n
LehmanStep(n, u, v) ==
  LET d == 4 * u * v * n
      a == IF Sqrt(d) * Sqrt(d) < d THEN Sqrt(d) + 1 ELSE Sqrt(d)
  IN IF IsSquare(a * a - d) /\ 1 < Gcd(a + Sqrt(a * a - d), n)
          /\ Gcd(a + Sqrt(a * a - d), n) < n
     THEN <<Gcd(a + Sqrt(a * a - d), n), n \div Gcd(a + Sqrt(a * a - d), n)>>
     ELSE <<>>

\* The convergents with abs(u * q_0 - v * p_0) < bound, by index.
GoodConvergents(n, p_0, cf) ==
  {i \in 1..Len(cf) :
     AbsDiff(cf[i][2] * (n \div p_0), cf[i][3] * p_0) < CubeRootBound(n)}

\* The loop: the first good convergent decides ("return None" inside the if).
FactorWithGuessLoop(n, p_0, cf) ==
  IF GoodConvergents(n, p_0, cf) = {} THEN <<>>
  ELSE LET i == CHOOSE i \in GoodConvergents(n, p_0, cf) :
                  \A j \in GoodConvergents(n, p_0, cf) : i <= j
       IN LehmanStep(n, cf[i][2], cf[i][3])

FactorWithGuess(n, p_0) ==
  IF p_0 = 0 THEN [err |-> "ZeroDivisionError", factors |-> <<>>]
  ELSE [err |-> "none",
        factors |-> FactorWithGuessLoop(n, p_0, ContinuedFraction(p_0, n \div p_0))]

(***************************************************************************)
(* randomness_tests/berlekamp_massey.py and the reference implementation   *)
(* of berlekamp_massey_test.py. A bit sequence s_0, s_1, ... is the integer *)
(* sum(2 ** i * s_i).                                                      *)
(***************************************************************************)
\* x ^ y for non-negative integers
RECURSIVE BitXor(_, _)
BitXor(x, y) ==
  IF x = 0 THEN y
  ELSE IF y = 0 THEN x
  ELSE ((x + y) % 2) + 2 * BitXor(x \div 2, y \div 2)

\* x & (1 << m) is not zero
TestBit(x, m) == (x \div Pow2(m)) % 2 = 1

\* The loop body with the test 2 * deg_c < n.
NativeStepStrict(n, st) ==
  IF ~TestBit(st.sc, st.m) THEN [st EXCEPT !.m = @ + 1]
  ELSE IF 2 * st.deg_c < n
  THEN [sb |-> st.sc \div Pow2(st.m + 1),
        sc |-> BitXor(st.sb, st.sc \div Pow2(st.m + 1)),
        deg_c |-> n + 1 - st.deg_c, m |-> 0]
  ELSE [sb |-> st.sb, sc |-> BitXor(st.sc \div Pow2(st.m + 1), st.sb),
        deg_c |-> st.deg_c, m |-> 0]

\* The loop body of LinearComplexityNative for the bit n.
NativeStep(n, st) ==
  IF ~TestBit(st.sc, st.m) THEN [st EXCEPT !.m = @ + 1]
  ELSE IF 2 * st.deg_c <= n
  THEN [sb |-> st.sc \div Pow2(st.m + 1),
        sc |-> BitXor(st.sb, st.sc \div Pow2(st.m + 1)),
        deg_c |-> n + 1 - st.deg_c, m |-> 0]
  ELSE [sb |-> st.sb, sc |-> BitXor(st.sc \div Pow2(st.m + 1), st.sb),
        deg_c |-> st.deg_c, m |-> 0]

RECURSIVE NativeLoop(_, _, _)
NativeLoop(n, length, st) ==
  IF n >= length THEN st.deg_c ELSE NativeLoop(n + 1, length, NativeStep(n, st))

LinearComplexityNative(s, length) ==
  IF length < 0 THEN [err |-> "ValueError", value |-> 0]
  ELSE [err |-> "none",
        value |-> NativeLoop(0, length, [sb |-> s, sc |-> s, deg_c |-> 0, m |-> 0])]

\* s = [(seq >> i) & 1 for i in range(length)]
SeqBits(seq, length) == [i \in 0..(length - 1) |-> (seq \div Pow2(i)) % 2]

\* d = (s[n] + sum(c[i] * s[n - i] for i in range(1, deg_c + 1))) % 2
WikipediaDiscrepancy(s, n, st) ==
  (s[n] + Cardinality({i \in 1..st.deg_c : st.c[i] = 1 /\ s[n - i] = 1})) % 2

\* The loop body of BerlekampMasseyWikipedia for the bit n.
WikipediaStep(s, length, n, st) ==
  IF WikipediaDiscrepancy(s, n, st) = 0 THEN st
  ELSE LET c == [j \in 0..length |->
                   IF j >= n - st.m /\ j - (n - st.m) < length + 1 - n + st.m
                   THEN (st.c[j] + st.b[j - (n - st.m)]) % 2
                   ELSE st.c[j]]
       IN IF 2 * st.deg_c <= n
          THEN [b |-> st.c, c |-> c, deg_c |-> n + 1 - st.deg_c, m |-> n]
          ELSE [st EXCEPT !.c = c]

RECURSIVE WikipediaLoop(_, _, _, _)
WikipediaLoop(s, length, n, st) ==
  IF n >= length THEN st.deg_c
  ELSE WikipediaLoop(s, length, n + 1, WikipediaStep(s, length, n, st))

\* BerlekampMasseyWikipedia(seq, length)[0]
BerlekampMasseyWikipedia(seq, length) ==
  WikipediaLoop(SeqBits(seq, length), length, 0,
                [b |-> [j \in 0..length |-> IF j = 0 THEN 1 ELSE 0],
                 c |-> [j \in 0..length |-> IF j = 0 THEN 1 ELSE 0],
                 deg_c |-> 0, m |-> -1])

(***************************************************************************)
(* Calls of single library functions: the arguments are drawn from bounded *)
(* sets, one action per function applies it and stores what it returned or *)
(* raised.                                                                 *)
(***************************************************************************)
MaxValues == 3

ValuePool == {1, 6, 10, 15, 35}

\* other_values_prod; 0 stands for None.
OtherProds == {0, 1, 7}

\* What decides the checks that the model does not compute: none, a weak
\* issuer key 3, a nonce bias that gives the key 3.
CallOracles ==
  {NoOracle,
   [check |-> "CheckWeakECPrivateKey", target |-> 3, factors |-> FALSE, rev |-> FALSE],
   [check |-> "CheckNonceMSB", target |-> 3, factors |-> FALSE, rev |-> FALSE]}

MaxBits == 6

MaxExp == 6

MaxGuess == 8

MaxSignatures == 5

MaxDividend == 12

MaxDivisor == 7

\* The hidden number problem of m signatures: a and b of the i-th signature.
HnpA(m) == [i \in 1..m |-> 10 + i]

HnpB(m) == [i \in 1..m |-> 20 + i]

SearchStrategies == SUBSET {"SINGLE", "SLIDING", "INCLUDE_KEY"}

\* Integer matrices of m rows and n columns, m >= n, and vectors.
Matrices(m, n, entries) == [1..m -> [1..n -> entries]]

EchelonInputs ==
  Matrices(1, 1, {-1, 0, 1, 2}) \cup Matrices(2, 1, {-1, 0, 1, 2})
    \cup Matrices(2, 2, {-1, 0, 1, 2}) \cup Matrices(3, 2, {-1, 0, 2})
    \cup Matrices(3, 3, {0, 1, 2})

SolveInputs ==
  Matrices(1, 1, {-1, 0, 2}) \cup Matrices(2, 1, {-1, 0, 2})
    \cup Matrices(2, 2, {-1, 0, 1, 2}) \cup Matrices(3, 2, {0, 1})

RightSides(m) == [1..m -> {0, 1, 2}]

\* 1 and odd primes: the factors p < q of the moduli n = p * q given to
\* FactorHighAndLowBitsEqual.
OddFactors == {1, 3, 5, 7, 11, 23, 31, 37, 53, 61}

\* Moduli n = p * q of two odd primes.
ModulusPool == {15, 21, 35, 39, 77}

MaxRadicand == 40

Called(fn, args) ==
  [fn |-> fn, status |-> "called", args |-> args, err |-> NoErr, result |-> <<>>]

\* No library call: the state of call in the other specifications.
NoCall == call = [fn |-> "none", status |-> "idle", args |-> <<>>, err |-> NoErr,
                  result |-> <<>>]

InitCall ==
  \/ \E values \in ListsUpTo(ValuePool, MaxValues), o \in OtherProds :
       call = Called("BatchGCD", [values |-> values, other_values_prod |-> o])
  \/ \E keys \in ListsUpTo(RSAKeyPool, MaxKeys), name \in {"CheckGCD", "CheckGCDN1"} :
       call = Called(name, [artifacts |-> keys])
  \/ \E sigs \in ListsUpTo(SigPool, MaxSigs + 1), name \in {"CheckIssuerKey", "CheckNonceMSB"},
        orc \in CallOracles :
       call = Called(name, [artifacts |-> sigs, oracle |-> orc])
  \/ \E m \in 0..MaxSignatures, curve_type \in {"CURVE_SECP256R1", "CURVE_SECP256K1"},
        lcg \in {"None", "GMP", "JAVA_UTIL_RANDOM"}, flags \in SearchStrategies :
       call = Called("HiddenNumberProblemSubsets",
                     [a |-> HnpA(m), b |-> HnpB(m), curve_type |-> curve_type,
                      lcg |-> lcg, flags |-> flags])
  \/ \E a \in (0 - MaxDividend)..MaxDividend, b \in 1..MaxDivisor :
       call = Called("DivmodRounded", [a |-> a, b |-> b])
  \/ \E a \in EchelonInputs : call = Called("echelon_form", [a |-> a, b |-> <<>>])
  \/ \E a \in SolveInputs : \E b \in RightSides(Len(a)) :
       call = Called("solve_right", [a |-> a, b |-> b])
  \/ \E p \in OddFactors, q \in OddFactors :
       /\ p < q
       /\ call = Called("FactorHighAndLowBitsEqual", [n |-> p * q])
  \/ \E n \in ModulusPool, p_0 \in 0..MaxGuess :
       call = Called("FactorWithGuess", [n |-> n, p_0 |-> p_0])
  \/ \E n \in 1..MaxRadicand, k \in 0..MaxExp :
       call = Called("InverseSqrt2exp", [n |-> n, k |-> k])
  \/ \E n \in 1..MaxRadicand, k \in (-1)..MaxExp :
       call = Called("Sqrt2exp", [n |-> n, k |-> k])
  \/ \E length \in (-1)..MaxBits, s \in 0..(Pow2(MaxBits + 1) - 1) :
       call = Called("LinearComplexityNative", [s |-> s, length |-> length])

Finished(err, result) ==
  call' = [call EXCEPT !.status = IF err = NoErr THEN "returned" ELSE "raised",
                       !.err = err, !.result = result]

BatchGCDReturns(bg) == Finished(bg.err, bg.gcds)

BatchGCDCall ==
  /\ call.fn = "BatchGCD" /\ call.status = "called"
  /\ \E unique_values \in SetOrders(SeqToSet(call.args.values)) :
       BatchGCDReturns(BatchGCD(call.args.values, call.args.other_values_prod,
                                unique_values))
  /\ UNCHANGED notCall

\* What a Check call leaves: its boolean, the artifacts, and the indexes of
\* the artifacts whose TestInfo it wrote, in the order of the writes.
CheckReturns(out, order) ==
  Finished(out.err,
           [any_weak |-> out.any_weak, artifacts |-> out.artifacts,
            writes |-> SelectSeq(order,
                         LAMBDA i : out.artifacts[i].test_info
                                      # call.args.artifacts[i].test_info)])

\* for i in range(len(gcds)) / for i, sig in enumerate(sigs)
InputOrder(artifacts) == [i \in 1..Len(artifacts) |-> i]

\* The curve loop of BiasedBaseCheck.Check: the signatures of one supported
\* curve after the other.
RECURSIVE CurveWrites(_, _)
CurveWrites(artifacts, k) ==
  IF k > Len(CURVE_FACTORY) THEN <<>>
  ELSE (IF CURVE_FACTORY[k].curve = NoCurve THEN <<>>
        ELSE OnCurve(artifacts, CURVE_FACTORY[k].curve_id))
       \o CurveWrites(artifacts, k + 1)

CheckGCDCall ==
  /\ call.fn = "CheckGCD" /\ call.status = "called"
  /\ \E order \in SetOrders({call.args.artifacts[i].n : i \in 1..Len(call.args.artifacts)}) :
       CheckReturns(CheckGCD(call.args.artifacts, order), InputOrder(call.args.artifacts))
  /\ UNCHANGED notCall

CheckGCDN1Call ==
  /\ call.fn = "CheckGCDN1" /\ call.status = "called"
  /\ \E order \in SetOrders({call.args.artifacts[i].n : i \in 1..Len(call.args.artifacts)}) :
       CheckReturns(CheckGCDN1(call.args.artifacts, order), InputOrder(call.args.artifacts))
  /\ UNCHANGED notCall

\* CheckIssuerKey.Check: CheckAllEC on the issuer keys fills the registry.
CheckIssuerKeyReturns(reg) ==
  /\ CheckReturns(CheckIssuerKey(call.args.artifacts, call.args.oracle,
                                 DictNames(reg.factory[EC_ALL])),
                  IssuerKeyWrites(call.args.artifacts, IssuerKeys(call.args.artifacts)))
  /\ RegistryUpdate(reg)

CheckIssuerKeyCall ==
  /\ call.fn = "CheckIssuerKey" /\ call.status = "called"
  /\ CheckIssuerKeyReturns(GetChecks([factory |-> check_factory,
                                      constructed |-> constructed], EC_ALL))
  /\ UNCHANGED <<tiVars, thr, orchVars, randVars>>

CheckNonceMSBCall ==
  /\ call.fn = "CheckNonceMSB" /\ call.status = "called"
  /\ CheckReturns(CurveLoop(call.fn, 1, call.args.artifacts, call.args.oracle, FALSE),
                  CurveWrites(call.args.artifacts, 1))
  /\ UNCHANGED notCall

\* CompareImplementations: the native and the reference implementation on
\* the same sequence.
LinearComplexityReturns(native) ==
  Finished(native.err,
           IF native.err # NoErr THEN <<>>
           ELSE [len_b |-> native.value,
                 len_d |-> BerlekampMasseyWikipedia(call.args.s, call.args.length)])

LinearComplexityCall ==
  /\ call.fn = "LinearComplexityNative" /\ call.status = "called"
  /\ LinearComplexityReturns(LinearComplexityNative(call.args.s, call.args.length))
  /\ UNCHANGED notCall

InverseSqrt2expCall ==
  /\ call.fn = "InverseSqrt2exp" /\ call.status = "called"
  /\ Finished(NoErr, InverseSqrt2exp(call.args.n, call.args.k))
  /\ UNCHANGED notCall

Sqrt2expReturns(res) == Finished(res.err, res.roots)

Sqrt2expCall ==
  /\ call.fn = "Sqrt2exp" /\ call.status = "called"
  /\ Sqrt2expReturns(Sqrt2exp(call.args.n, call.args.k))
  /\ UNCHANGED notCall

FactorsReturned(res) == Finished(res.err, res.factors)

FactorWithGuessCall ==
  /\ call.fn = "FactorWithGuess" /\ call.status = "called"
  /\ FactorsReturned(FactorWithGuess(call.args.n, call.args.p_0))
  /\ UNCHANGED notCall

FactorHighAndLowBitsEqualCall ==
  /\ call.fn = "FactorHighAndLowBitsEqual" /\ call.status = "called"
  /\ FactorsReturned(FactorHighAndLowBitsEqual(call.args.n))
  /\ UNCHANGED notCall

\* The call returns a generator: nothing has run yet.
SubsetsCall ==
  /\ call.fn = "HiddenNumberProblemSubsets" /\ call.status = "called"
  /\ call' = [call EXCEPT !.status = "iterating", !.result = [yielded |-> <<>>]]
  /\ UNCHANGED notCall

\* next() on the generator: it raises, yields the next subset, or ends.
SubsetsAdvance(gen) ==
  call' = IF gen.err # NoErr THEN [call EXCEPT !.status = "raised", !.err = gen.err]
          ELSE IF Len(call.result.yielded) < Len(gen.subsets)
          THEN [call EXCEPT !.result.yielded =
                              Append(@, gen.subsets[Len(call.result.yielded) + 1])]
          ELSE [call EXCEPT !.status = "exhausted"]

SubsetsNext ==
  /\ call.fn = "HiddenNumberProblemSubsets" /\ call.status = "iterating"
  /\ SubsetsAdvance(HiddenNumberProblemSubsets(call.args.a, call.args.b,
                                               call.args.curve_type, call.args.lcg,
                                               call.args.flags))
  /\ UNCHANGED notCall

EchelonFormReturns(res) ==
  Finished(res.err, [rank |-> res.rank, a |-> res.a, b |-> res.b, exact |-> res.exact])

EchelonFormCall ==
  /\ call.fn = "echelon_form" /\ call.status = "called"
  /\ EchelonFormReturns(echelon_form(call.args.a, call.args.b))
  /\ UNCHANGED notCall

SolveRightReturns(res) == Finished(res.err, res.x)

SolveRightCall ==
  /\ call.fn = "solve_right" /\ call.status = "called"
  /\ SolveRightReturns(solve_right(call.args.a, call.args.b))
  /\ UNCHANGED notCall

DivmodRoundedCall ==
  /\ call.fn = "DivmodRounded" /\ call.status = "called"
  /\ Finished(NoErr, DivmodRounded(call.args.a, call.args.b))
  /\ UNCHANGED notCall

NextCall ==
  \/ DivmodRoundedCall
  \/ EchelonFormCall
  \/ SolveRightCall
  \/ SubsetsCall
  \/ SubsetsNext
  \/ FactorHighAndLowBitsEqualCall
  \/ FactorWithGuessCall
  \/ InverseSqrt2expCall
  \/ Sqrt2expCall
  \/ LinearComplexityCall
  \/ BatchGCDCall
  \/ CheckGCDCall
  \/ CheckGCDN1Call
  \/ CheckIssuerKeyCall
  \/ CheckNonceMSBCall

Init == InitTI /\ InitReg /\ NoOrch /\ NoSuite /\ NoCall

SpecTI == Init /\ [][NextTI]_vars

SpecReg == Init /\ [][NextReg]_vars

InitCheckAll == InitTI /\ InitReg /\ InitOrch /\ NoSuite /\ NoCall

SpecOrch == InitCheckAll /\ [][NextOrch]_vars

InitRandomTests == InitTI /\ InitReg /\ NoOrch /\ InitSuite /\ NoCall

SpecRand == InitRandomTests /\ [][NextSuite]_vars

InitLibraryCall == InitTI /\ InitReg /\ NoOrch /\ NoSuite /\ InitCall

SpecCall == InitLibraryCall /\ [][NextCall]_vars

(***************************************************************************)
(* C1: TestInfo accumulates monotonically. In every step of a sequence of  *)
(* SetTestResult and AttachFactors calls, weak never goes from true to     *)
(* false, every named entry stays, its result never goes from true to      *)
(* false, its severity never decreases, and every factor attached under an *)
(* info name is still in that factor set.                                  *)
(***************************************************************************)
TIMonotoneStep(old, new) ==
  /\ old.weak => new.weak
  /\ \A i \in 1..Len(old.test_results) :
       LET e == old.test_results[i]
           j == GetTestResultIdx(new, e.test_name)
       IN /\ j # 0
          /\ e.result => new.test_results[j].result
          /\ e.severity <= new.test_results[j].severity
  /\ \A info \in TIInfoNames :
       GetAttachedFactors(old, info) \subseteq GetAttachedFactors(new, info)

C1_TestInfoMonotone == [][TIMonotoneStep(ti, ti')]_vars

\* A check was re-run with a weaker result and a lower severity on an entry
\* that is already failed, and two factor sets were merged.
C1_Witness ==
  /\ tiLast.op = "SetTestResult"
  /\ tiLast.result = FALSE
  /\ tiLast.severity = SEVERITY_UNKNOWN
  /\ LET j == GetTestResultIdx(ti, tiLast.name)
     IN /\ j # 0
        /\ ti.test_results[j].result
        /\ ti.test_results[j].severity = SEVERITY_CRITICAL
  /\ ti.weak
  /\ GetAttachedFactors(ti, INFO_NAME_N_FACTORS) = {3, 5, MaxFactor}

(***************************************************************************)
(* C3: the check registry is a lazy immutable singleton, also when threads *)
(* make the first call concurrently: every check class is constructed at   *)
(* most once, every value returned to a caller is the complete registry    *)
(* (all active checks in declared order, singles before aggregates), and   *)
(* the registry a caller received does not change afterwards.              *)
(***************************************************************************)
ExpectedNames(fn) ==
  IF IsMerged(fn)
  THEN LeafClasses(MergedParts(fn)[1]) \o LeafClasses(MergedParts(fn)[2])
  ELSE LeafClasses(fn)

C3_RegistrySingleton ==
  /\ \A c \in AllClasses : constructed[c] <= 1
  /\ \A t \in Threads :
       thr[t].got # NoValue =>
         /\ DictNames(thr[t].got.dict) = ExpectedNames(thr[t].got.fn)
         /\ check_factory[thr[t].got.fn] = thr[t].got.dict

WrittenNames(test_info) ==
  [k \in 1..Len(test_info.test_results) |-> test_info.test_results[k].test_name]

C4_OrchestratorOrder ==
  (run.status = "returned" /\ run.calls = 1) =>
    \A i \in 1..Len(artifact_list) :
      WrittenNames(artifact_list[i].test_info) = ExpectedNames(AllChecksOf(run.fn))

(***************************************************************************)
(* C5: checks are independent. When the Check() of one check has raised an *)
(* error other than the ArithmeticError of the Cr50 solver, the run goes   *)
(* on: no run ends in that error with later checks of the registry left    *)
(* unexecuted.                                                             *)
(***************************************************************************)
C5_ChecksIndependent ==
  (run.status = "raised" /\ run.err # "ArithmeticError") =>
    run.idx >= Len(run.check_items)

(***************************************************************************)
(* C6: the ArithmeticError of the Cr50 sanity check is never swallowed.    *)
(* Whenever one of the calls of Cr50U2fGuesses that CheckCr50U2f.Check     *)
(* makes for the signatures raises it, the step of CheckCr50U2f ends the   *)
(* run of CheckAllECDSASigs with that ArithmeticError, and no result of    *)
(* CheckCr50U2f is recorded in its place.                                  *)
(***************************************************************************)
Cr50CallsOf(artifacts, rev) ==
  UNION {UNION {Cr50Calls(UniqueVals(artifacts,
                                     SeqToSet(OnCurve(artifacts, CURVE_FACTORY[k].curve_id)),
                                     pt, rev),
                          CURVE_FACTORY[k].curve.n) :
                  pt \in {PublicPoint(artifacts[i]) :
                            i \in SeqToSet(OnCurve(artifacts, CURVE_FACTORY[k].curve_id))}} :
           k \in {j \in 1..Len(CURVE_FACTORY) : CURVE_FACTORY[j].curve # NoCurve}}

AtCheckCr50U2f ==
  /\ run.fn = CHECK_ALL_ECDSA
  /\ run.idx <= Len(run.check_items)
  /\ run.check_items[run.idx] = "CheckCr50U2f"

C6_ArithmeticErrorSurfaces ==
  [][(/\ run.status = "running"
      /\ AtCheckCr50U2f
      /\ \E c \in Cr50CallsOf(artifact_list, oracle.rev) : c.err = "ArithmeticError")
     => /\ run'.status = "raised"
        /\ run'.err = "ArithmeticError"
        /\ artifact_list' = artifact_list]_vars

C6_Witness ==
  /\ run.status = "raised"
  /\ run.err = "ArithmeticError"
  /\ AtCheckCr50U2f
  /\ \E i \in 1..Len(artifact_list) : artifact_list[i].r = 0
  /\ \A i \in 1..Len(artifact_list) :
       GetTestResultIdx(artifact_list[i].test_info, "CheckCr50U2f") = 0

(***************************************************************************)
(* C10: idempotence. When a second run of CheckAllRSA, CheckAllEC or       *)
(* CheckAllECDSASigs on the same artifact list has returned, it returned   *)
(* the boolean of the first run and every artifact (weak flag, result      *)
(* entries, attached factor sets) is as the first run left it.             *)
(***************************************************************************)
C10_Idempotence ==
  (run.status = "returned" /\ run.calls = 2) =>
    /\ run.first.set
    /\ run.ret = run.first.ret
    /\ artifact_list = run.first.artifacts

C10_Witness ==
  /\ run.status = "returned"
  /\ run.calls = 2
  /\ run.fn = CHECK_ALL_RSA
  /\ run.ret
  /\ \E i \in 1..Len(artifact_list) :
       /\ artifact_list[i].test_info.weak
       /\ GetAttachedFactors(artifact_list[i].test_info, INFO_NAME_N_FACTORS) # {}

(***************************************************************************)
(* C7: repetition logic. After every TestStructure.Run that produced       *)
(* p-values, each sub-test is FAILED iff its combined p-value is below     *)
(* p_value_fail, otherwise PASSED iff the combined p-value of as many      *)
(* copies of p_value_repeat as there are runs is below its combined        *)
(* p-value, otherwise UNDECIDED; and the test is finished only when no     *)
(* sub-test is UNDECIDED and it has run at least min_repetitions times.    *)
(***************************************************************************)
RepetitionLogic(self) ==
  /\ \A name \in DOMAIN self.state :
       self.state[name] =
         IF self.combined_p_values[name] < self.p_value_fail THEN STATE_FAILED
         ELSE IF CombinedPValue([i \in 1..self.runs |-> self.p_value_repeat])
                   < self.combined_p_values[name]
         THEN STATE_PASSED
         ELSE STATE_UNDECIDED
  /\ self.finished =>
       /\ \A name \in DOMAIN self.state : self.state[name] # STATE_UNDECIDED
       /\ self.runs >= self.min_repetitions

ProducedPValues(old, new) ==
  /\ new.runs = old.runs + 1
  /\ new.p_values # old.p_values

C7_RepetitionLogic ==
  [][\A i \in 1..Len(tests) :
       (Len(tests') = Len(tests) /\ ProducedPValues(tests[i], tests'[i]))
         => RepetitionLogic(tests'[i])]_vars

(***************************************************************************)
(* C8: TestSource and TestBitString return False if any of the tests       *)
(* fail, i.e. if some sub-test ended in the state FAILED.                  *)
(***************************************************************************)
C8_FalseIfAnyTestFails ==
  (suite.status = "returned" /\ \E i \in 1..Len(tests) : Failed(tests[i]))
    => suite.ret = "False"

(***************************************************************************)
(* C9: insufficient data. A test that raises InsufficientDataError in a   *)
(* run is skipped: its Run counts the run and returns finished, records no *)
(* p-value, combined p-value or state, a finished test is not run again,   *)
(* and the call reports a failure only for a sub-test in the state FAILED, *)
(* which a skip never adds.                                                *)
(***************************************************************************)
Raises(test, n) == InsufficientDataError \in TestOutcomes(test, n)

C9_Step ==
  /\ \A i \in 1..Len(tests) :
       (suite.status = "running" /\ tests[i].finished) => tests'[i] = tests[i]
  /\ (/\ suite.status = "running"
      /\ suite.pos <= Len(tests)
      /\ ~tests[suite.pos].finished
      /\ Raises(tests[suite.pos].test, suite.n))
     => /\ tests'[suite.pos] = [tests[suite.pos] EXCEPT !.runs = @ + 1, !.finished = TRUE]
        /\ suite'.pos = suite.pos + 1
        /\ suite'.undecided = suite.undecided
  /\ (suite'.status = "returned" /\ suite'.ret = "True")
     => \E i \in 1..Len(tests) : \E name \in DOMAIN tests[i].p_values :
          tests[i].state[name] = STATE_FAILED

C9_InsufficientDataSkips == [][C9_Step]_vars

C9_Witness ==
  /\ suite.status = "returned"
  /\ suite.fn = TEST_SOURCE
  /\ suite.ret = "False"
  /\ \E i \in 1..Len(tests), j \in 1..Len(tests) :
       /\ tests[i].test = "LargeBinaryMatrixRank"
       /\ tests[i].runs = 1
       /\ tests[i].finished
       /\ tests[i].p_values = EmptyDict
       /\ tests[i].state = EmptyDict
       /\ tests[j].runs > 1

\* C11: a first CheckAll* call on artifacts with empty TestInfo that returns,
\* returns True exactly when afterwards at least one artifact has weak = True
\* (the return value is the OR of the return values of all checks).
C11_ReturnsAnyWeak ==
  (run.status = "returned" /\ run.calls = 1)
    => (run.ret <=> \E i \in 1..Len(artifact_list) : artifact_list[i].test_info.weak)

\* A returned first call with a weak and a non-weak artifact.
C11_Witness ==
  /\ run.status = "returned" /\ run.calls = 1 /\ run.ret
  /\ Len(run.check_items) > 1
  /\ \E i \in 1..Len(artifact_list) : artifact_list[i].test_info.weak
  /\ \E i \in 1..Len(artifact_list) : ~artifact_list[i].test_info.weak
\* The product of a set of integers.
RECURSIVE ProductOf(_)
ProductOf(S) == IF S = {} THEN 1 ELSE LET x == CHOOSE x \in S : TRUE IN x * ProductOf(S \ {x})

\* The product of values[j] over the indexes j in J.
RECURSIVE ProductAt(_, _)
ProductAt(values, J) ==
  IF J = {} THEN 1 ELSE LET j == CHOOSE j \in J : TRUE IN values[j] * ProductAt(values, J \ {j})

OtherOrOne == IF call.args.other_values_prod = 0 THEN 1 ELSE call.args.other_values_prod

RepeatedOnly(values, i) ==
  /\ \E j \in 1..Len(values) : j # i /\ values[j] = values[i]
  /\ \A j \in 1..Len(values) : values[j] # values[i] => Gcd(values[j], values[i]) = 1

Moduli(artifacts) == [i \in 1..Len(artifacts) |-> artifacts[i].n]

NotFlagged(artifact, name) ==
  /\ ~artifact.test_info.weak
  /\ artifact.test_info.attached_info = <<>>
  /\ \A k \in 1..Len(artifact.test_info.test_results) :
       ~artifact.test_info.test_results[k].result
  /\ GetTestResultIdx(artifact.test_info, name) # 0

CurveOf(curve_id) ==
  (CHOOSE k \in 1..Len(CURVE_FACTORY) : CURVE_FACTORY[k].curve_id = curve_id)

DLogIsIssuerKey(sig) ==
  LET i == GetAttachedInfoIdx(sig.test_info, INFO_NAME_DISCRETE_LOG)
  IN i # 0 =>
       /\ CURVE_FACTORY[CurveOf(sig.curve_type)].curve # NoCurve
       /\ MultiplyG(CURVE_FACTORY[CurveOf(sig.curve_type)].curve,
                    IntHex(sig.test_info.attached_info[i].value)) = PublicPoint(sig)

C14_DiscreteLogCorrect ==
  run.fn = CHECK_ALL_ECDSA => \A i \in 1..Len(artifact_list) : DLogIsIssuerKey(artifact_list[i])

\* A returned run on signatures of two issuers where a biased-nonce check
\* found the key of the one and the other carries no discrete log.
C14_Witness ==
  /\ run.fn = CHECK_ALL_ECDSA /\ run.status = "returned"
  /\ oracle.check \in BiasedChecks
  /\ \E i, j \in 1..Len(artifact_list) :
       /\ PublicPoint(artifact_list[i]) # PublicPoint(artifact_list[j])
       /\ GetAttachedInfoIdx(artifact_list[i].test_info, INFO_NAME_DISCRETE_LOG) # 0
       /\ GetAttachedInfoIdx(artifact_list[j].test_info, INFO_NAME_DISCRETE_LOG) = 0
       /\ GetTestResultIdx(artifact_list[j].test_info, oracle.check) # 0
\* C15: during one Check call the results are written in input order: the
\* result of a[i] is written before the result of a[j] whenever i < j, also
\* when the input mixes several curves or several issuers.
Ascending(seq) == \A k \in 1..(Len(seq) - 1) : seq[k] < seq[k + 1]

C15_WrittenInInputOrder ==
  (call.fn \in {"CheckGCD", "CheckGCDN1", "CheckIssuerKey", "CheckNonceMSB"}
     /\ call.status # "called")
    => Ascending(call.result.writes)
\* C16: for every bit sequence and every declared length (also with leading
\* zero bits, and with bits beyond the declared length), LinearComplexityNative
\* returns the LFSR length of the reference Berlekamp-Massey implementation,
\* which is the length of the shortest LFSR that generates the sequence.
GeneratedBy(s, length, L) ==
  \E C \in SUBSET (1..L) :
    \A n \in L..(length - 1) :
      s[n] = Cardinality({i \in C : s[n - i] = 1}) % 2

ShortestLfsr(s, length) ==
  CHOOSE L \in 0..length :
    /\ GeneratedBy(s, length, L)
    /\ \A K \in 0..(L - 1) : ~GeneratedBy(s, length, K)

C16_NativeAgreesWithReference ==
  (call.fn = "LinearComplexityNative" /\ call.status # "called" /\ call.args.length >= 0)
    => /\ call.status = "returned"
       /\ call.result.len_b = call.result.len_d
       /\ call.result.len_b = ShortestLfsr(SeqBits(call.args.s, call.args.length),
                                           call.args.length)

\* The sequence 0, 0, 0, 1, 1 (three leading zero bits) needs an LFSR of length 4.
C16_Witness ==
  /\ call.fn = "LinearComplexityNative" /\ call.status = "returned"
  /\ call.args.s = 24 /\ call.args.length = 5
  /\ call.result.len_b = 4
\* All square roots of n modulo 2**k.
AllRoots(n, k) == {x \in 0..(Pow2(k) - 1) : (x * x - n) % Pow2(k) = 0}

\* a non-None InverseSqrt2exp(n, k) = a satisfies a * a * n = 1 (mod 2**k)
InverseSqrtIsRight ==
  (call.fn = "InverseSqrt2exp" /\ call.status # "called" /\ call.args.n % 2 = 1)
    => /\ call.status = "returned"
       /\ call.result # <<>>
            => (call.result[1] * call.result[1] * call.args.n) % Pow2(call.args.k)
                 = 1 % Pow2(call.args.k)

\* every element x of Sqrt2exp(n, k) is a square root with 0 <= x < 2**k
RootsAreRoots ==
  (call.fn = "Sqrt2exp" /\ call.status # "called" /\ call.args.n % 2 = 1
     /\ call.args.k >= 0)
    => /\ call.status = "returned"
       /\ \A i \in 1..Len(call.result) : call.result[i] \in AllRoots(call.args.n, call.args.k)

FourRoots ==
  /\ Len(call.result) = 4
  /\ \A i, j \in 1..4 : i # j => call.result[i] # call.result[j]
  /\ SeqToSet(call.result) = AllRoots(call.args.n, call.args.k)

\* C17 as stated: for every odd n and every k >= 0 the inverse square root
\* and the square roots are right, and when k >= 3 Sqrt2exp(n, k) has exactly
\* four elements, pairwise distinct and together all square roots of n.
C17_FourRootsForOddN ==
  /\ InverseSqrtIsRight
  /\ RootsAreRoots
  /\ (call.fn = "Sqrt2exp" /\ call.status # "called" /\ call.args.n % 2 = 1
        /\ call.args.k >= 3)
       => FourRoots

\* C17, amended: for every odd n > 0 and every k >= 0 the inverse square root
\* and the square roots are right; when k >= 3, Sqrt2exp(n, k) has exactly
\* four elements, pairwise distinct and together all square roots of n, if
\* n = 1 (mod 8), and is empty, as n has no square root, otherwise.
C17_FourRootsIfOneMod8 ==
  /\ InverseSqrtIsRight
  /\ RootsAreRoots
  /\ (call.fn = "Sqrt2exp" /\ call.status # "called" /\ call.args.n % 2 = 1
        /\ call.args.k >= 3)
       => IF call.args.n % 8 = 1 THEN FourRoots
          ELSE call.result = <<>> /\ AllRoots(call.args.n, call.args.k) = {}

\* The four roots 7, 25, 9, 23 of 17 modulo 32 (in some order).
C17_Witness ==
  /\ call.fn = "Sqrt2exp" /\ call.status = "returned"
  /\ call.args.n = 17 /\ call.args.k = 5
  /\ SeqToSet(call.result) = {7, 9, 23, 25}
\* C18: FactorWithGuess(n, p0) applies the Fermat step to 4*u*v*n for each
\* convergent u/v of p0/q0 with |u*q0 - v*p0| < B: it returns [g, n/g] with
\* 1 < g < n for the first such convergent whose step gives a non-trivial
\* factor, and None only when no convergent under the bound yields one.
Yielding(n, p_0) ==
  {i \in GoodConvergents(n, p_0, ContinuedFraction(p_0, n \div p_0)) :
     LehmanStep(n, ContinuedFraction(p_0, n \div p_0)[i][2],
                ContinuedFraction(p_0, n \div p_0)[i][3]) # <<>>}

C18_EveryConvergentUnderBound ==
  (call.fn = "FactorWithGuess" /\ call.status # "called" /\ call.args.p_0 > 0)
    => /\ call.status = "returned"
       /\ IF Yielding(call.args.n, call.args.p_0) = {} THEN call.result = <<>>
          ELSE LET i == CHOOSE i \in Yielding(call.args.n, call.args.p_0) :
                          \A j \in Yielding(call.args.n, call.args.p_0) : i <= j
                   cf == ContinuedFraction(call.args.p_0, call.args.n \div call.args.p_0)
               IN /\ call.result = LehmanStep(call.args.n, cf[i][2], cf[i][3])
                  /\ 1 < call.result[1] /\ call.result[1] < call.args.n
                  /\ call.result[2] = call.args.n \div call.result[1]
\* The number of most significant bits, and of least significant bits, in
\* which p and q of the same bit length coincide.
CommonHigh(p, q) ==
  CHOOSE h \in 0..BitLength(p) :
    /\ p \div Pow2(BitLength(p) - h) = q \div Pow2(BitLength(p) - h)
    /\ \A g \in (h + 1)..BitLength(p) :
         p \div Pow2(BitLength(p) - g) # q \div Pow2(BitLength(p) - g)

CommonLow(p, q) ==
  CHOOSE l \in 0..BitLength(p) :
    /\ p % Pow2(l) = q % Pow2(l)
    /\ \A g \in (l + 1)..BitLength(p) : p % Pow2(g) # q % Pow2(g)

\* C19: FactorHighAndLowBitsEqual(n) returns {p, q} for every n = p*q with
\* n = 1 (mod 8), bit length >= 6, p and q odd and of equal bit length whose
\* h most and l least significant bits coincide with h + l >= ceil(bitlen(n)/4);
\* and whenever it returns [x, y] then x*y = n with 1 < x <= y < n.
C19_SucceedsWhenEnoughBitsAgree ==
  (call.fn = "FactorHighAndLowBitsEqual" /\ call.status # "called")
    => /\ call.status = "returned"
       /\ call.result # <<>>
            => /\ call.result[1] * call.result[2] = call.args.n
               /\ 1 < call.result[1] /\ call.result[1] <= call.result[2]
               /\ call.result[2] < call.args.n
       /\ \A p, q \in OddFactors :
            (/\ p * q = call.args.n /\ p % 2 = 1 /\ q % 2 = 1
             /\ call.args.n % 8 = 1 /\ BitLength(call.args.n) >= 6
             /\ BitLength(p) = BitLength(q)
             /\ CommonHigh(p, q) + CommonLow(p, q) >= (BitLength(call.args.n) + 3) \div 4)
              => SeqToSet(call.result) = {p, q}
\* The catalog entries that match the curve and the LCG of the call.
Matching ==
  SelectSeq(CONSTANT_FACTORY,
            LAMBDA e : e.curve = call.args.curve_type
                       /\ call.args.lcg \in {e.lcg, "None"})

\* The positions of a (and of b) that a yielded subset holds; 0 is the
\* virtual signature (a = 0, b = 1).
Positions(y) ==
  [i \in 1..Len(y.a0) |->
     IF y.a0[i] = 0 /\ y.b0[i] = 1 THEN 0
     ELSE CHOOSE j \in 1..Len(call.args.a) :
            call.args.a[j] = y.a0[i] /\ call.args.b[j] = y.b0[i]]

Window(i, size) == [j \in 1..size |-> i + j - 1]

Windows(m, size) == [i \in 1..Max(m - size + 1, 0) |-> Window(i, size)]

RECURSIVE Concat(_)
Concat(ss) == IF ss = <<>> THEN <<>> ELSE Head(ss) \o Concat(Tail(ss))

\* C20 as stated: the yielded subsets are, entry by entry, the subsets of
\* every flag that is set: the windows for SLIDING, one wide subset for
\* SINGLE, one subset extended by the virtual signature for INCLUDE_KEY.
FlagSubsets(e) ==
  LET m == Len(call.args.a)
  IN (IF "SLIDING" \in call.args.flags THEN Windows(m, e.sliding_window_size) ELSE <<>>)
     \o (IF "SINGLE" \in call.args.flags
          THEN <<Window(1, Min(m, 2 * e.sample_size))>> ELSE <<>>)
     \o (IF "INCLUDE_KEY" \in call.args.flags THEN <<Window(1, m) \o <<0>>>> ELSE <<>>)

C20_SubsetsOfEveryFlag ==
  (call.fn = "HiddenNumberProblemSubsets" /\ call.status \in {"raised", "exhausted"})
    => IF call.args.flags = {} THEN call.status = "raised" /\ call.err = "ValueError"
       ELSE /\ call.status = "exhausted"
            /\ SeqToSet([k \in 1..Len(call.result.yielded) |->
                           Positions(call.result.yielded[k])])
                 = SeqToSet(Concat([k \in 1..Len(Matching) |-> FlagSubsets(Matching[k])]))

\* C20, amended: for every matching catalog entry, in catalog order: with
\* more than sliding_window_size signatures, every window if SLIDING is set,
\* then the first min(len(a), 2 * sample_size) signatures if SINGLE is set or
\* SLIDING is not; otherwise, with at least min_signatures signatures, all
\* signatures once, whatever the flags; otherwise, with min_signatures - 1
\* signatures and INCLUDE_KEY set, all signatures and the virtual signature;
\* otherwise nothing. The iteration ends; no flag raises ValueError at the
\* first step of the iteration.
CaseSubsets(e) ==
  LET m == Len(call.args.a)
  IN IF m > e.sliding_window_size
     THEN (IF "SLIDING" \in call.args.flags THEN Windows(m, e.sliding_window_size)
           ELSE <<>>)
          \o (IF "SINGLE" \in call.args.flags \/ "SLIDING" \notin call.args.flags
               THEN <<Window(1, Min(m, 2 * e.sample_size))>> ELSE <<>>)
     ELSE IF m >= e.min_signatures THEN <<Window(1, m)>>
     ELSE IF m = e.min_signatures - 1 /\ "INCLUDE_KEY" \in call.args.flags
     THEN <<Window(1, m) \o <<0>>>>
     ELSE <<>>

C20_SubsetsByCase ==
  /\ (call.fn = "HiddenNumberProblemSubsets" /\ call.status \in {"raised", "exhausted"})
       => IF call.args.flags = {} THEN call.status = "raised" /\ call.err = "ValueError"
          ELSE /\ call.status = "exhausted"
               /\ [k \in 1..Len(call.result.yielded) |->
                     Positions(call.result.yielded[k])]
                    = Concat([k \in 1..Len(Matching) |-> CaseSubsets(Matching[k])])
  /\ (call.fn = "HiddenNumberProblemSubsets" /\ call.status = "iterating")
       => Len(call.result.yielded) <= 2 * Len(CONSTANT_FACTORY) * (Len(call.args.a) + 1)

\* Five signatures, every LCG of the curve, SLIDING and SINGLE: the three
\* windows and the wide subset of the first entry, then those of the second.
C20_Witness ==
  /\ call.fn = "HiddenNumberProblemSubsets" /\ call.status = "exhausted"
  /\ call.args.flags = {"SLIDING", "SINGLE"} /\ Len(call.args.a) = 5
  /\ call.args.lcg = "None" /\ call.args.curve_type = "CURVE_SECP256R1"
  /\ Len(call.result.yielded) = 9
  /\ call.result.yielded[2].a0 = <<12, 13, 14>>
  /\ call.result.yielded[2].b0 = <<22, 23, 24>>

\* The issuer keys of the signatures, each distinct key (curve and point)
\* once, in the order of first occurrence.
SameIssuer(x, y) == x.curve_type = y.curve_type /\ x.point = y.point

DistinctIssuers(sigs) ==
  LET firsts == SelectSeq([i \in 1..Len(sigs) |-> i],
                  LAMBDA i : \A j \in 1..(i - 1) : ~SameIssuer(sigs[j], sigs[i]))
  IN [k \in 1..Len(firsts) |-> ECKey(sigs[firsts[k]].curve_type, sigs[firsts[k]].point)]

\* The failed checks of a key and the highest of their severities.
FailedSeverities(key) ==
  {key.test_info.test_results[k].severity :
     k \in {k \in 1..Len(key.test_info.test_results) :
              key.test_info.test_results[k].result}}

EntriesOf(artifact, name) ==
  SelectSeq(artifact.test_info.test_results, LAMBDA r : r.test_name = name)

\* The verdict that the signature sig must carry when its issuer key is key,
\* tested by all EC checks.
IssuerVerdict(sig, key) ==
  /\ Len(EntriesOf(sig, "CheckIssuerKey")) = 1
  /\ EntriesOf(sig, "CheckIssuerKey")[1].result = (FailedSeverities(key) # {})
  /\ EntriesOf(sig, "CheckIssuerKey")[1].severity =
       IF FailedSeverities(key) = {} THEN SEVERITY_UNKNOWN
       ELSE CHOOSE v \in FailedSeverities(key) : \A w \in FailedSeverities(key) : w <= v

VerdictsOf(sigs, tested) ==
  \A i \in 1..Len(sigs) :
    \E k \in 1..Len(tested) :
      SameIssuer(tested[k], call.args.artifacts[i]) /\ IssuerVerdict(sigs[i], tested[k])

\* C21: CheckIssuerKey runs all EC checks once on every distinct issuer key;
\* a signature of a weak issuer key gets result True with the highest
\* severity among the failed EC checks of that key, a signature of a key that
\* is not weak gets result False with severity UNKNOWN, and every signature
\* holds exactly one CheckIssuerKey entry.
C21_IssuerKeyVerdicts ==
  (call.fn = "CheckIssuerKey" /\ call.status = "returned")
    => VerdictsOf(call.result.artifacts,
                  CheckArtifactsEC(DictNames(check_factory[EC_ALL]), 1,
                                   DistinctIssuers(call.args.artifacts),
                                   call.args.oracle, FALSE).artifacts)

\* The rank of an integer matrix over the rationals: the largest r for which
\* some r rows and r columns have a determinant that is not zero.
Increasing(r, m) ==
  {q \in [1..r -> 1..m] : \A i \in 1..(r - 1) : q[i] < q[i + 1]}

Submatrix(a, rows, cols) ==
  [i \in 1..Len(rows) |-> [k \in 1..Len(cols) |-> a[rows[i]][cols[k]]]]

RECURSIVE Det(_)
Det(M) ==
  IF Len(M) = 1 THEN M[1][1]
  ELSE LET Minor(k) == [i \in 1..(Len(M) - 1) |-> Pop(M[i + 1], k - 1)]
           RECURSIVE Expand(_)
           Expand(k) ==
             IF k > Len(M) THEN 0
             ELSE (IF k % 2 = 1 THEN 1 ELSE 0 - 1) * M[1][k] * Det(Minor(k))
                  + Expand(k + 1)
       IN Expand(1)

HasMinor(a, r) ==
  \E rows \in Increasing(r, Len(a)), cols \in Increasing(r, Len(a[1])) :
    Det(Submatrix(a, rows, cols)) # 0

RankOf(a) ==
  CHOOSE r \in 0..Len(a[1]) :
    /\ r > 0 => HasMinor(a, r)
    /\ \A q \in (r + 1)..Len(a[1]) : ~HasMinor(a, q)

\* C22: echelon_form(a) returns the rank of a over the rationals, for every
\* integer matrix with m >= n (zero pivots, zero rows and dependent rows
\* included), and every division it performs is exact.
C22_EchelonFormRank ==
  (call.fn = "echelon_form" /\ call.status # "called")
    => /\ call.status = "returned"
       /\ call.result.exact
       /\ call.result.rank = RankOf(call.args.a)

\* Row i of a * x = b over the rationals, x[k] = <<numerator, denominator>>,
\* with all terms brought to the common denominator.
RECURSIVE DenProduct(_, _)
DenProduct(x, skip) ==
  IF x = <<>> THEN 1
  ELSE (IF skip = 1 THEN 1 ELSE Head(x)[2]) * DenProduct(Tail(x), skip - 1)

RECURSIVE RowTimes(_, _, _)
RowTimes(row, x, k) ==
  IF k > Len(row) THEN 0
  ELSE row[k] * x[k][1] * DenProduct(x, k) + RowTimes(row, x, k + 1)

Solves(a, x, b) ==
  \A i \in 1..Len(a) : RowTimes(a[i], x, 1) = b[i] * DenProduct(x, 0)

\* C23: solve_right(a, b) with m >= n rows returns either x with a * x = b
\* for every row of the system as it was passed, or None, and None only when
\* a has fewer than n linearly independent rows.
C23_SolveRightSolves ==
  (call.fn = "solve_right" /\ call.status # "called")
    => /\ call.status = "returned"
       /\ IF call.result = <<>> THEN RankOf(call.args.a) < Len(call.args.a[1])
          ELSE Solves(call.args.a, call.result, call.args.b)

\* C24: for all integers a and all b > 0, DivmodRounded(a, b) returns
\* (q, r) with r = a - q * b and q a nearest integer to a / b, that is
\* 2 * |r| <= b.
C24_RoundedDivision ==
  (call.fn = "DivmodRounded" /\ call.status = "returned")
    => /\ call.result[2] = call.args.a - call.result[1] * call.args.b
       /\ 2 * call.result[2] <= call.args.b
       /\ 2 * (0 - call.result[2]) <= call.args.b

\* C25 as stated: a sub-test that is FAILED after some run is FAILED after
\* every later run of its test.
C25_FailureIsFinal ==
  [][\A i \in 1..Len(tests) : \A name \in DOMAIN tests[i].state :
       (Len(tests') = Len(tests) /\ tests[i].state[name] = STATE_FAILED)
         => tests'[i].state[name] = STATE_FAILED]_vars

\* C25, amended: a run recomputes the state of every sub-test it reports
\* from all p-values of the sub-test so far, FAILED exactly when their
\* combined p-value is below p_value_fail, so that a later run can take a
\* FAILED state back; a sub-test that the run does not report keeps its
\* state; and the call reports a failure exactly when some sub-test is
\* FAILED after the last run of its test.
Reported(old, new, name) ==
  DictGetList(new.p_values, name) # DictGetList(old.p_values, name)

C25_Step ==
  /\ \A i \in 1..Len(tests) :
       (Len(tests') = Len(tests) /\ tests'[i] # tests[i])
         => \A name \in DOMAIN tests'[i].state :
              IF Reported(tests[i], tests'[i], name)
              THEN (tests'[i].state[name] = STATE_FAILED)
                     <=> (CombinedPValue(tests'[i].p_values[name])
                            < tests'[i].p_value_fail)
              ELSE /\ name \in DOMAIN tests[i].state
                   /\ tests'[i].state[name] = tests[i].state[name]
  /\ (suite.status = "running" /\ suite'.status = "returned")
       => (suite'.ret = "True")
            <=> \E i \in 1..Len(tests') : \E name \in DOMAIN tests'[i].state :
                  tests'[i].state[name] = STATE_FAILED

C25_FailureFollowsCombinedPValue == [][C25_Step]_vars

\* A sub-test whose first p-value alone is below p_value_fail, so that it was
\* FAILED after the first run, and that is not FAILED after a later run.
C25_Witness ==
  \E i \in 1..Len(tests) : \E name \in DOMAIN tests[i].state :
    /\ Len(tests[i].p_values[name]) >= 2
    /\ tests[i].p_values[name][1] < tests[i].p_value_fail
    /\ tests[i].state[name] # STATE_FAILED

C26_Step ==
  /\ \A i \in 1..Len(tests) :
       (suite.status = "running" /\ tests[i].finished) => tests'[i] = tests[i]
  /\ \A i \in 1..Len(tests) :
       (Len(tests') = Len(tests) /\ ProducedPValues(tests[i], tests'[i])
          /\ suite.fn = TEST_SOURCE)
         => (~tests'[i].finished
               <=> \/ tests'[i].runs < tests'[i].min_repetitions
                   \/ \E name \in DOMAIN tests'[i].state :
                        /\ Reported(tests[i], tests'[i], name)
                        /\ tests'[i].state[name] = STATE_UNDECIDED)
  /\ (suite.fn = TEST_SOURCE /\ suite'.status = "returned")
       => \A i \in 1..Len(tests') : tests'[i].finished
  /\ \A i \in 1..Len(tests') : \A name \in DOMAIN tests'[i].state :
       tests'[i].p_value_repeat = ExpNeg(0) => tests'[i].state[name] # STATE_PASSED

C27_NoPartialRegistry ==
  \A t \in Threads :
    (/\ thr[t].raised
     /\ thr[t].got # NoValue
     /\ \A u \in Threads \ {t} : thr[u].calls = 0)
      => DictNames(thr[t].got.dict) = ExpectedNames(thr[t].got.fn)

\* C28: empty input is accepted: a run of CheckAllRSA, CheckAllEC or
\* CheckAllECDSASigs on the empty artifact list does not raise and returns
\* False (the aggregate checks CheckGCD and CheckGCDN1 get BatchGCD([]) = []).
C28_EmptyInputAccepted ==
  (artifact_list = <<>> /\ run.status \in {"returned", "raised"})
    => (run.status = "returned" /\ run.ret = FALSE)

\* The same for the two orchestrators that have no aggregate check built on
\* BatchGCD.
C28_EmptyECInput ==
  (artifact_list = <<>> /\ run.fn # CHECK_ALL_RSA
     /\ run.status \in {"returned", "raised"})
    => (run.status = "returned" /\ run.ret = FALSE)

\* C29: the sanity check of Cr50U2fGuesses never fires on input data: no
\* call that CheckCr50U2f.Check makes for the signatures of a run (sliding
\* window and final probe, signatures with r = 0 modulo n included) raises
\* ArithmeticError, so no run of CheckAllECDSASigs ends in it.
C29_SanityCheckNeverFires ==
  (run.fn = CHECK_ALL_ECDSA /\ run.status \in {"returned", "raised"})
    => /\ \A c \in Cr50CallsOf(artifact_list, oracle.rev) : c.err # "ArithmeticError"
       /\ run.err # "ArithmeticError"

\* The part of C29 that the algebra gives: when r1 and r2 are invertible
\* modulo n, every accepted candidate yields x1 = x2.
C29_InvertibleConsistent ==
  (run.fn = CHECK_ALL_ECDSA /\ \A i \in 1..Len(artifact_list) :
      Invert(artifact_list[i].r, CURVE_FACTORY[1].curve.n) # 0)
    => \A c \in Cr50CallsOf(artifact_list, oracle.rev) : c.err = NoErr

\* C30: the aggregate flag agrees with the per-check results: after any
\* sequence of SetTestResult calls on a TestInfo that started empty, weak
\* is true iff some result entry has result = true, no two entries have the
\* same check name, and a weak TestInfo has a highest severity (never None),
\* which is the severity of one of its failed entries.
C30_WeakAgreesWithResults ==
  /\ ti.weak <=> \E i \in 1..Len(ti.test_results) : ti.test_results[i].result
  /\ \A i, j \in 1..Len(ti.test_results) :
       ti.test_results[i].test_name = ti.test_results[j].test_name => i = j
  /\ ti.weak =>
       \E i \in 1..Len(ti.test_results) :
         /\ ti.test_results[i].result
         /\ GetHighestSeverity(ti) = ti.test_results[i].severity

\* A weak TestInfo whose only failed entry has the lowest severity, after a
\* call that repeated a check name with a passing result.
C30_Witness ==
  /\ ti.weak
  /\ Len(ti.test_results) = 2
  /\ tiLast.op = "SetTestResult"
  /\ tiLast.result = FALSE
  /\ GetTestResultIdx(ti, tiLast.name) = 1
  /\ ti.test_results[1].result
  /\ ti.test_results[1].severity = SEVERITY_UNKNOWN
  /\ ~ti.test_results[2].result
  /\ GetHighestSeverity(ti) = SEVERITY_UNKNOWN

\* The use in CheckIssuerKey: no call and no run ends in the TypeError of
\* a severity None.
C30_IssuerSeverityNotNone == run.err # "TypeError" /\ call.err # "TypeError"
====
